---- MODULE Spec2Model ----
(***************************************************************************)
(* Model of execdmscript (src/execdmscript/execdmscript.py): the session   *)
(* object DMScriptWrapper, the script assembler with its fragment spans,   *)
(* the execution and diagnostics controller, the script-side linearization *)
(* routine and the caller-side reconstruction.                            *)
(*                                                                         *)
(* Representation of Python values                                         *)
(*   - A str that holds script text is the sequence of its lines, i.e.     *)
(*     what str.split("\n") returns: s.count("\n") is Len(s) - 1 and       *)
(*     "\n".join(parts) is the concatenation of the parts.  A line is a    *)
(*     sequence of tokens.                                                 *)
(*   - A str that is a name, a key, a path or a payload is the sequence of *)
(*     its characters.                                                     *)
(*   - A caller value is a record tagged by its Python type in field k.    *)
(*                                                                         *)
(* Assumptions                                                             *)
(*   - The interpreter is one on which the module runs as written (it uses *)
(*     collections.Sequence), and DM is the host's module, not None.       *)
(*   - Scripts reach __init__ in the form normalizeScripts accepts.        *)
(*   - A float is a whole number; the model does not round.                *)
(*   - Within a tag group of the host a label names one tag: setting a tag *)
(*     with a label that exists replaces it.                               *)
(*   - Time is read in steps of 5 ms.                                      *)
(***************************************************************************)
EXTENDS Integers, Sequences, FiniteSets, TLC

VARIABLES
    arg,        \* input of the pure operation under check
    res,        \* its result, NoResult before the operation ran
    clock,      \* the last reading of time.time(), in steps of 5 ms
    pc,         \* per session: where its caller stands
    obj,        \* per session: the DMScriptWrapper object
    store,      \* the host's persistent tags: label -> group
    files,      \* the debug targets: path or object -> text written
    released,   \* per session: freeAllSyncedVars ran since its last run began
    last        \* what the last step did (observation only)

lifeVars == <<clock, pc, obj, store, files, released, last>>
vars == <<arg, res, clock, pc, obj, store, files, released, last>>

NoResult == [k |-> "noresult"]

(***************************************************************************)
(* Bounds                                                                  *)
(***************************************************************************)
MaxLines == 3
MaxSessions == 2
MaxTime == 3
MaxFileLines == 500

(***************************************************************************)
(* Sequence helpers                                                        *)
(***************************************************************************)
RECURSIVE Flatten(_)
Flatten(ss) == IF Len(ss) = 0 THEN <<>> ELSE Head(ss) \o Flatten(Tail(ss))

RECURSIVE SumSeq(_)
SumSeq(ns) == IF Len(ns) = 0 THEN 0 ELSE Head(ns) + SumSeq(Tail(ns))

Contains(s, c) == \E i \in 1..Len(s) : s[i] = c

\* str.replace(c, rep) for a one-character search string c
RECURSIVE ReplaceChar(_, _, _)
ReplaceChar(s, c, rep) ==
    IF Len(s) = 0 THEN <<>>
    ELSE (IF Head(s) = c THEN rep ELSE <<Head(s)>>) \o ReplaceChar(Tail(s), c, rep)

(***************************************************************************)
(* Python values                                                           *)
(***************************************************************************)
PyNone == [k |-> "none"]
PyInt(i) == [k |-> "int", i |-> i]
PyFloat(f) == [k |-> "float", f |-> f]
PyBool(b) == [k |-> "bool", b |-> b]
PyStr(s) == [k |-> "str", s |-> s]
PyList(items) == [k |-> "list", items |-> items]
PyTuple(items) == [k |-> "tuple", items |-> items]
PyDict(keys, vals) == [k |-> "dict", keys |-> keys, vals |-> vals]
PyType(t) == [k |-> "type", t |-> t]
PyAlias(a) == [k |-> "alias", a |-> a]

\* type(value)
TypeOf(value) == PyType(IF value.k = "none" THEN "NoneType" ELSE value.k)

(***************************************************************************)
(* Type registry                                                           *)
(***************************************************************************)
_python_dm_type_map == <<
    [python |-> {"int"}, TagGroup |-> "Long", dmscript |-> "number",
     names |-> {"long", "integer", "int", "uint32", "uint16"}],
    [python |-> {"float"}, TagGroup |-> "Float", dmscript |-> "number",
     names |-> {"float", "double", "decimal", "realnumber", "number"}],
    [python |-> {"bool"}, TagGroup |-> "Boolean", dmscript |-> "number",
     names |-> {"bool", "boolean"}],
    [python |-> {"str"}, TagGroup |-> "String", dmscript |-> "string",
     names |-> {"string", "text"}],
    [python |-> {"dict"}, TagGroup |-> "TagGroup", dmscript |-> "TagGroup",
     names |-> {"taggroup", "dict"}],
    [python |-> {"list", "tuple"}, TagGroup |-> "TagGroup", dmscript |-> "TagGroup",
     names |-> {"taglist", "list"}] >>

\* str.lower() on the type expressions used as inputs
lower(a) ==
    CASE a \in {"Integer", "INTEGER"} -> "integer"
      [] a \in {"Int", "INT"} -> "int"
      [] a \in {"Long", "LONG"} -> "long"
      [] a \in {"Short", "SHORT"} -> "short"
      [] a \in {"Float", "FLOAT"} -> "float"
      [] a \in {"Double", "DOUBLE"} -> "double"
      [] a \in {"Realnumber", "REALNUMBER"} -> "realnumber"
      [] a \in {"Number", "NUMBER"} -> "number"
      [] a \in {"Decimal", "DECIMAL"} -> "decimal"
      [] a \in {"Boolean", "BOOLEAN"} -> "boolean"
      [] a \in {"String", "STRING"} -> "string"
      [] a \in {"Text", "TEXT"} -> "text"
      [] a \in {"Dict", "DICT"} -> "dict"
      [] a \in {"TagGroup", "Taggroup", "TAGGROUP"} -> "taggroup"
      [] a \in {"List", "LIST"} -> "list"
      [] a \in {"TagList", "Taglist", "TAGLIST"} -> "taglist"
      [] a = "UInt16" -> "uint16"
      [] a = "UInt32" -> "uint32"
      [] a \in {"Bogus", "BOGUS"} -> "bogus"
      [] OTHER -> a

\* the index of the first type_def matching datatype, 0 if there is none
TypeDefIndex(datatype) ==
    LET hit(i) == LET td == _python_dm_type_map[i]
                  IN  \/ datatype.k = "alias" /\ lower(datatype.a) \in td.names
                      \/ datatype.k = "type" /\ datatype.t \in td.python
        hits == {i \in 1..Len(_python_dm_type_map) : hit(i)}
    IN  IF hits = {} THEN 0 ELSE CHOOSE i \in hits : \A j \in hits : i <= j

\* get_dm_type: [ok, v] or the LookupError
get_dm_type(datatype, for_taggroup) ==
    LET i == TypeDefIndex(datatype)
    IN  IF i = 0 THEN [ok |-> FALSE, err |-> "LookupError"]
        ELSE [ok |-> TRUE,
              v |-> IF for_taggroup THEN _python_dm_type_map[i].TagGroup
                    ELSE _python_dm_type_map[i].dmscript]

\* get_python_type: [ok, v] or the LookupError; (list, tuple) gives list
get_python_type(datatype) ==
    LET i == TypeDefIndex(datatype)
    IN  IF i = 0 THEN [ok |-> FALSE, err |-> "LookupError"]
        ELSE [ok |-> TRUE,
              v |-> IF i = Len(_python_dm_type_map) THEN "list"
                    ELSE CHOOSE t \in _python_dm_type_map[i].python : TRUE]

(***************************************************************************)
(* Identifier and string escaping                                          *)
(***************************************************************************)
\* characters matched by \w (Python 3 str patterns are Unicode-aware, so the
\* letters U+00B5 and U+00FC, written "u181" and "u252", are word characters)
WordChars == {"a", "b", "c", "d", "e", "f", "g", "h", "i", "j", "k", "l", "m",
              "n", "o", "p", "q", "r", "s", "t", "u", "v", "w", "x", "y", "z",
              "A", "B", "C", "_", "0", "1", "2", "3", "4", "5", "6", "7", "8",
              "9", "u181", "u252"}

\* escape_dm_variable: [ok, v] or the ValueError
escape_dm_variable(variable_name) ==
    LET name == [i \in 1..Len(variable_name) |->
                    IF variable_name[i] \in WordChars THEN variable_name[i] ELSE "_"]
    IN  IF name = <<>> THEN [ok |-> FALSE, err |-> "ValueError"]
        ELSE [ok |-> TRUE, v |-> name]

\* escape_dm_string: the five replacements in the order of the source
escape_dm_string(str_content) ==
    LET s1 == ReplaceChar(str_content, "\\", <<"\\", "\\">>)
        s2 == ReplaceChar(s1, "\"", <<"\\", "\"">>)
        s3 == ReplaceChar(s2, "\n", <<"\\", "n">>)
        s4 == ReplaceChar(s3, "\t", <<"\\", "t">>)
    IN  ReplaceChar(s4, "NUL", <<"\\", "0">>)

(***************************************************************************)
(* Non-ASCII escape codec.  A character is a one-character string; the     *)
(* characters U+00B5, U+00FC and U+20AC are written "u181", "u252" and     *)
(* "u8364".                                                                *)
(***************************************************************************)
DigitChars == <<"0", "1", "2", "3", "4", "5", "6", "7", "8", "9">>

IsDigit(c) == \E d \in 1..10 : DigitChars[d] = c

DigitValue(c) == (CHOOSE d \in 1..10 : DigitChars[d] = c) - 1

\* the decimal digits of n >= 0
RECURSIVE Digits(_)
Digits(n) == IF n < 10 THEN <<DigitChars[n + 1]>>
             ELSE Digits(n \div 10) \o <<DigitChars[(n % 10) + 1]>>

\* int() of a sequence of digits
RECURSIVE DigitsValue(_)
DigitsValue(ds) == IF Len(ds) = 0 THEN 0
                   ELSE 10 * DigitsValue(SubSeq(ds, 1, Len(ds) - 1))
                        + DigitValue(ds[Len(ds)])

\* unc(str, i): the code point of a character; every character that is not
\* listed is printable ASCII and its exact code is not needed
unc(c) ==
    CASE c = "u181" -> 181
      [] c = "u252" -> 252
      [] c = "u8364" -> 8364
      [] c = "a" -> 97
      [] c = "b" -> 98
      [] OTHER -> 32

\* __exec_dmscript_escape_non_ascii
EscapeToken(u) == <<"{", "{", "u", "n", "c">> \o Digits(u) \o <<"}", "}">>

__exec_dmscript_escape_non_ascii(str) ==
    Flatten([i \in 1..Len(str) |->
                IF unc(str[i]) > 126 THEN EscapeToken(unc(str[i])) ELSE <<str[i]>>])

\* the length of the match of \{\{unc([\d]+)\}\} at position i of s, 0 if none
TokenLen(s, i) ==
    LET n == Len(s)
        lit(j, c) == j <= n /\ s[j] = c
        \* the digits run from i + 5 up to (not including) e
        ends == {e \in (i + 6)..(n - 1) :
                    /\ \A j \in (i + 5)..(e - 1) : IsDigit(s[j])
                    /\ s[e] = "}" /\ s[e + 1] = "}"}
    IN  IF /\ lit(i, "{") /\ lit(i + 1, "{") /\ lit(i + 2, "u")
           /\ lit(i + 3, "n") /\ lit(i + 4, "c") /\ ends # {}
        THEN (CHOOSE e \in ends : TRUE) + 2 - i
        ELSE 0

\* the length of the match of (?:\{\{unc([\d]+)\}\})+ at position i of s
RECURSIVE RunLen(_, _)
RunLen(s, i) == IF i > Len(s) \/ TokenLen(s, i) = 0 THEN 0
                ELSE TokenLen(s, i) + RunLen(s, i + TokenLen(s, i))

\* the codes of the tokens of a run
RECURSIVE RunCodes(_, _)
RunCodes(s, i) ==
    IF i > Len(s) \/ TokenLen(s, i) = 0 THEN <<>>
    ELSE <<DigitsValue(SubSeq(s, i + 5, i + TokenLen(s, i) - 3))>>
         \o RunCodes(s, i + TokenLen(s, i))

\* finditer: the start positions of the runs of s from position i on
RECURSIVE RunStarts(_, _)
RunStarts(s, i) ==
    IF i > Len(s) THEN <<>>
    ELSE IF RunLen(s, i) > 0 THEN <<i>> \o RunStarts(s, i + RunLen(s, i))
    ELSE RunStarts(s, i + 1)

\* bytes([code]).decode("Windows 1252") for one byte, <<>> where it raises
\* (a code above 255, or a byte Windows 1252 leaves undefined)
DecodeByte(code) ==
    CASE code = 181 -> <<"u181">>
      [] code = 252 -> <<"u252">>
      [] code = 128 -> <<"u8364">>
      [] code = 97 -> <<"a">>
      [] code = 98 -> <<"b">>
      [] code \in {129, 141, 143, 144, 157} \/ code > 255 -> <<>>
      [] OTHER -> <<"?">>

\* str.replace(old, new, 1)
ReplaceFirst(s, old, new) ==
    LET at == {i \in 1..(Len(s) - Len(old) + 1) : SubSeq(s, i, i + Len(old) - 1) = old}
    IN  IF at = {} THEN s
        ELSE LET i == CHOOSE i \in at : \A j \in at : i <= j
             IN  SubSeq(s, 1, i - 1) \o new \o SubSeq(s, i + Len(old), Len(s))

\* the loop of unescapeNonAscii over the runs found in the original string
RECURSIVE UnescapeRuns(_, _, _)
UnescapeRuns(original, starts, escaped) ==
    IF Len(starts) = 0 THEN [ok |-> TRUE, v |-> escaped]
    ELSE LET i == Head(starts)
             codes == RunCodes(original, i)
             bad == \E c \in 1..Len(codes) : DecodeByte(codes[c]) = <<>>
             unescaped == Flatten([c \in 1..Len(codes) |-> DecodeByte(codes[c])])
             group0 == SubSeq(original, i, i + RunLen(original, i) - 1)
         IN  IF bad THEN [ok |-> FALSE, err |-> "ValueError"]
             ELSE UnescapeRuns(original, Tail(starts),
                               ReplaceFirst(escaped, group0, unescaped))

\* unescapeNonAscii with the default encoding: [ok, v] or the error raised
unescapeNonAscii(escaped) == UnescapeRuns(escaped, RunStarts(escaped, 1), escaped)

(***************************************************************************)
(* Value-to-code synthesizer.  A statement is one line, a sequence of      *)
(* tokens; identifiers and string payloads are spliced in character by     *)
(* character.                                                              *)
(***************************************************************************)
Quoted(s) == <<"\"">> \o escape_dm_string(s) \o <<"\"">>

\* "{}".format(value) for a scalar that is no str
Literal(value) ==
    CASE value.k = "int" -> <<ToString(value.i)>>
      [] value.k = "float" -> <<ToString(value.f), ".", "0">>
      [] value.k = "bool" -> <<IF value.b THEN "True" ELSE "False">>
      [] OTHER -> <<"None">>

GeneratedPrefix == <<"_", "_", "e", "x", "e", "c", "_", "d", "m", "s", "c", "r",
                     "i", "p", "t", "_">>

\* "{}_tg_{}_{}".format(escape_dm_variable(name), i, depth + 1)
GeneratedName(name, i, depth) ==
    escape_dm_variable(name).v \o <<"_", "t", "g", "_", ToString(i), "_",
                                    ToString(depth + 1)>>

\* _getTagGroupDMCodeForVariable for a name that escapes to a non-empty
\* identifier: the list of statements
RECURSIVE _getTagGroupDMCodeForVariable(_, _, _, _, _)
_getTagGroupDMCodeForVariable(name, value, declare_type, prefix, depth) ==
    LET isDict == value.k = "dict"
        items == IF isDict THEN value.vals ELSE value.items
        var == escape_dm_variable(prefix \o name).v
        index == GeneratedPrefix \o escape_dm_variable(name).v
                 \o <<"_", "i", "n", "d", "e", "x">>
        first == (IF declare_type THEN <<"TagGroup", " ">> ELSE <<>>) \o var
                 \o <<" = ", IF isDict THEN "NewTagGroup()" ELSE "NewTagList()", ";">>
        decl == IF isDict THEN << <<"number", " ">> \o index \o <<";">> >> ELSE <<>>
        element(j) ==
            LET v == items[j]
                i == j - 1
                isGroup == v.k \in {"dict", "list", "tuple"}
                n == GeneratedName(name, i, depth)
                value_dm_type == IF v.k = "none" THEN "Number"
                                 ELSE get_dm_type(TypeOf(v), TRUE).v
                val == CASE v.k = "none" -> <<"0">>
                         [] v.k = "str" -> Quoted(v.s)
                         [] v.k = "bool" -> <<IF v.b THEN "1" ELSE "0">>
                         [] isGroup -> GeneratedPrefix \o n
                         [] OTHER -> Literal(v)
                nested == IF isGroup
                          THEN << <<>> >> \o _getTagGroupDMCodeForVariable(
                                                n, v, TRUE, GeneratedPrefix, depth + 1)
                          ELSE <<>>
                put == IF isDict
                       THEN << index \o <<" = ">> \o var
                               \o <<".TagGroupCreateNewLabeledTag(">>
                               \o Quoted(value.keys[j]) \o <<")", ";">>,
                               var \o <<".TagGroupSetIndexedTagAs", value_dm_type, "(">>
                               \o index \o <<", ">> \o val \o <<")", ";">> >>
                       ELSE << var \o <<".TagGroupInsertTagAs", value_dm_type,
                                        "(", "infinity()", ", ">> \o val \o <<")", ";">> >>
            IN  nested \o put
    IN  <<first>> \o decl \o Flatten([j \in 1..Len(items) |-> element(j)])

\* getDMCodeForVariable: [ok, v] with v the code, or the error raised
getDMCodeForVariable(name, value, declare_type) ==
    LET dm_type == get_dm_type(TypeOf(value), FALSE)
        var == escape_dm_variable(name)
        val == IF value.k = "str" THEN Quoted(value.s) ELSE Literal(value)
    IN  IF ~dm_type.ok THEN [ok |-> FALSE, err |-> dm_type.err]
        ELSE IF ~var.ok THEN [ok |-> FALSE, err |-> var.err]
        ELSE IF value.k \in {"dict", "list", "tuple"}
        THEN [ok |-> TRUE,
              v |-> _getTagGroupDMCodeForVariable(name, value, declare_type, <<>>, 0)]
        ELSE [ok |-> TRUE,
              v |-> << (IF declare_type THEN <<dm_type.v, " ">> ELSE <<>>)
                       \o var.v \o <<" = ">> \o val \o <<";">> >>]

(***************************************************************************)
(* Host tag structures.  A TagGroup or TagList of the script is            *)
(* [k |-> "tg", valid, isList, tags], tags a sequence of [label, type, val]*)
(* with the type numbers TagGroupGetTagType returns: 0 group, 2 short,     *)
(* 3 long, 6 float, 7 double, 8 boolean, 20 string.                        *)
(***************************************************************************)
TG(isList, tags) == [k |-> "tg", valid |-> TRUE, isList |-> isList, tags |-> tags]
InvalidTG == [k |-> "tg", valid |-> FALSE, isList |-> FALSE, tags |-> <<>>]
Tag(label, type, val) == [label |-> label, type |-> type, val |-> val]

\* the tag type TagGroupInsertTagAs<T> / TagGroupSetIndexedTagAs<T> creates;
\* a dm-script number is stored as a 4 byte real
TagTypeOf(value_dm_type) ==
    CASE value_dm_type = "Long" -> 3
      [] value_dm_type = "Float" -> 6
      [] value_dm_type = "Number" -> 6
      [] value_dm_type = "Boolean" -> 8
      [] value_dm_type = "String" -> 20
      [] OTHER -> 0

\* the structure the host builds when it executes the statements that
\* _getTagGroupDMCodeForVariable emits for value: elements are appended in
\* order (lists) or created by label (dicts), None as the number 0, nested
\* containers built first and then inserted
RECURSIVE BuildTags(_)
BuildTags(value) ==
    LET isDict == value.k = "dict"
        items == IF isDict THEN value.vals ELSE value.items
        tag(j) ==
            LET v == items[j]
                value_dm_type == IF v.k = "none" THEN "Number"
                                 ELSE get_dm_type(TypeOf(v), TRUE).v
                val == CASE v.k = "none" -> PyFloat(0)
                         [] v.k \in {"dict", "list", "tuple"} -> BuildTags(v)
                         [] OTHER -> v
            IN  Tag(IF isDict THEN value.keys[j] ELSE <<>>, TagTypeOf(value_dm_type), val)
    IN  TG(~isDict, [j \in 1..Len(items) |-> tag(j)])

(***************************************************************************)
(* convert_to_taggroup: the Python-side conversion of a dict, list or      *)
(* tuple to a host TagGroup or TagList.  replace_invalid_chars is a bool,  *)
(* a str, a dict from characters to str or [k |-> "callable", name]; the   *)
(* host accepts every label and value it is handed.                        *)
(***************************************************************************)
invalid_taggroup_key_characters == <<":", "[", "]">>

\* the callables handed in as replace_invalid_chars: "drop" returns the key
\* without the character, "keep" returns the key as it is
CallBack(callback, key, c) ==
    IF callback.name = "drop" THEN ReplaceChar(key, c, <<>>) ELSE key

\* the loop over invalid_taggroup_key_characters for one str key, from the
\* i-th character on: the key to use, or the ValueError
RECURSIVE ReplaceInvalidChars(_, _, _)
ReplaceInvalidChars(key, replace_invalid_chars, i) ==
    IF i > Len(invalid_taggroup_key_characters) THEN [ok |-> TRUE, v |-> key]
    ELSE LET c == invalid_taggroup_key_characters[i]
             inTable == IF replace_invalid_chars.k = "dict"
                        THEN \E x \in 1..Len(replace_invalid_chars.keys) :
                                 replace_invalid_chars.keys[x] = <<c>>
                        ELSE FALSE
         IN  IF ~Contains(key, c)
             THEN ReplaceInvalidChars(key, replace_invalid_chars, i + 1)
             ELSE IF replace_invalid_chars.k = "str"
             THEN ReplaceInvalidChars(ReplaceChar(key, c, replace_invalid_chars.s),
                                      replace_invalid_chars, i + 1)
             ELSE IF inTable
             THEN ReplaceInvalidChars(
                      ReplaceChar(key, c,
                          replace_invalid_chars.vals[
                              CHOOSE x \in 1..Len(replace_invalid_chars.keys) :
                                  replace_invalid_chars.keys[x] = <<c>>].s),
                      replace_invalid_chars, i + 1)
             ELSE IF replace_invalid_chars.k = "callable"
             THEN ReplaceInvalidChars(CallBack(replace_invalid_chars, key, c),
                                      replace_invalid_chars, i + 1)
             ELSE [ok |-> FALSE, err |-> "ValueError"]

\* isinstance(value, (int, float, bool, str, None)): the classes are tried in
\* order, and None, which is no class, raises TypeError when it is reached
IsSavable(value) ==
    IF value.k \in {"int", "float", "bool", "str"} THEN [ok |-> TRUE, v |-> TRUE]
    ELSE [ok |-> FALSE, err |-> "TypeError"]

\* the tag InsertTagAs<T> / SetTagAs<T> stores for a value that passed
\* IsSavable: a bool is an int and is stored as a long
SavedTag(label, value) ==
    CASE value.k = "int" -> Tag(label, 3, value)
      [] value.k = "bool" -> Tag(label, 3, PyInt(IF value.b THEN 1 ELSE 0))
      [] value.k = "float" -> Tag(label, 6, value)
      [] value.k = "str" -> Tag(label, 20, value)
      [] OTHER -> Tag(label, 2, PyInt(0))

\* InsertTagAs<T>(index, ...) at the end of a TagList, SetTagAs<T>(label, ...)
\* in a TagGroup, which replaces the tag that has the label
StoreTag(tag_group, tag) ==
    IF tag_group.isList THEN TG(TRUE, Append(tag_group.tags, Tag(<<>>, tag.type, tag.val)))
    ELSE IF \E x \in 1..Len(tag_group.tags) : tag_group.tags[x].label = tag.label
    THEN TG(FALSE, [x \in 1..Len(tag_group.tags) |->
                       IF tag_group.tags[x].label = tag.label THEN tag
                       ELSE tag_group.tags[x]])
    ELSE TG(FALSE, Append(tag_group.tags, tag))

RECURSIVE convert_to_taggroup(_, _, _)
RECURSIVE ConvertItems(_, _, _, _, _)

\* the body of the loop over the items for the j-th item, its key checked
ConvertItem(tags, replace_invalid_chars, path, j, tag_group, key) ==
    LET value == IF tags.k = "dict" THEN tags.vals[j] ELSE tags.items[j]
        nested == convert_to_taggroup(value, replace_invalid_chars, Append(path, key))
    IN  IF value.k \in {"dict", "list", "tuple"}
        THEN IF ~nested.ok THEN nested
             ELSE ConvertItems(tags, replace_invalid_chars, path, j + 1,
                               StoreTag(tag_group, Tag(key, 0, nested.v)))
        ELSE IF ~IsSavable(value).ok THEN IsSavable(value)
        ELSE ConvertItems(tags, replace_invalid_chars, path, j + 1,
                          StoreTag(tag_group, SavedTag(key, value)))

\* the loop over the items from the j-th on
ConvertItems(tags, replace_invalid_chars, path, j, tag_group) ==
    LET n == IF tags.k = "dict" THEN Len(tags.keys) ELSE Len(tags.items)
    IN  IF j > n THEN [ok |-> TRUE, v |-> tag_group]
        ELSE IF tags.k # "dict"
        THEN ConvertItem(tags, replace_invalid_chars, path, j, tag_group, <<>>)
        ELSE LET key == ReplaceInvalidChars(tags.keys[j], replace_invalid_chars, 1)
             IN  IF ~key.ok THEN key
                 ELSE ConvertItem(tags, replace_invalid_chars, path, j, tag_group, key.v)

\* convert_to_taggroup(tags, replace_invalid_chars, path): the group, or the
\* error raised
convert_to_taggroup(tags, replace_invalid_chars, path) ==
    ConvertItems(tags,
                 IF replace_invalid_chars = PyBool(TRUE) THEN PyStr(<<>>)
                 ELSE replace_invalid_chars,
                 path, 1, TG(tags.k # "dict", <<>>))

(***************************************************************************)
(* Script-side linearization (the dm-script helper routines).  The         *)
(* destination group is a function from labels to [type, val].             *)
(***************************************************************************)
Put(m, key, val) == [x \in (DOMAIN m) \cup {key} |-> IF x = key THEN val ELSE m[x]]

EmptyGroup == [x \in {} |-> 0]

StringEntry(chars) == [type |-> "String", val |-> PyStr(chars)]

AvailablePathsLabel(var_name) == <<"{{available-paths}}">> \o var_name
TypeLabel(path) == <<"{{type}}">> \o path

\* __exec_dmscript_replace(subject, search, replace) for a one-character
\* search string: the text after the last match is not appended to r
RECURSIVE ReplaceLoop(_, _, _, _)
ReplaceLoop(r, subject, search, replace) ==
    LET found == {i \in 1..Len(subject) : subject[i] = search}
    IN  IF found = {} THEN r
        ELSE LET pos == CHOOSE i \in found : \A j \in found : i <= j
             IN  ReplaceLoop(r \o SubSeq(subject, 1, pos - 1) \o replace,
                             SubSeq(subject, pos + 1, Len(subject)), search, replace)

__exec_dmscript_replace(subject, search, replace) ==
    IF ~Contains(subject, search) THEN subject
    ELSE ReplaceLoop(<<>>, subject, search, replace)

\* the type name stored for a scalar tag, "" for a type that is skipped
ScalarTypeName(type) ==
    CASE type = 2 -> "Short"
      [] type = 3 -> "Long"
      [] type = 6 -> "Float"
      [] type = 7 -> "Double"
      [] type = 8 -> "Boolean"
      [] type = 20 -> "String"
      [] OTHER -> ""

RECURSIVE __exec_dmscript_linearizeTags(_, _, _, _)
RECURSIVE LinearizeLoop(_, _, _, _, _, _)

\* the for loop of __exec_dmscript_linearizeTags from tag i on, and the
\* final write of the manifest
LinearizeLoop(linearized, available_paths, tg, var_name, path, i) ==
    IF i > Len(tg.tags)
    THEN Put(linearized, AvailablePathsLabel(var_name), StringEntry(available_paths))
    ELSE LET tag == tg.tags[i]
             label == __exec_dmscript_escape_non_ascii(
                          IF tg.isList THEN Digits(i - 1)
                          ELSE __exec_dmscript_replace(tag.label, "/", <<"/", "/">>))
             p == path \o <<"/">> \o label
             maybeGroup == tag.type \in {0, 3}
             saved == IF maybeGroup
                      THEN Put(linearized, AvailablePathsLabel(var_name),
                               StringEntry(available_paths))
                      ELSE linearized
             isGroup == maybeGroup /\ (tag.type = 0 \/ (tag.val.k = "tg" /\ tag.val.valid))
             inner == IF isGroup
                      THEN __exec_dmscript_linearizeTags(saved, tag.val, var_name, p)
                      ELSE saved
             paths == IF isGroup THEN inner[AvailablePathsLabel(var_name)].val.s
                      ELSE available_paths
             type_name == IF isGroup
                          THEN (IF tag.val.isList THEN "TagList" ELSE "TagGroup")
                          ELSE ScalarTypeName(tag.type)
             stored == IF ~isGroup /\ type_name # ""
                       THEN Put(inner, p,
                                [type |-> type_name,
                                 val |-> IF tag.type = 20
                                         THEN PyStr(__exec_dmscript_escape_non_ascii(tag.val.s))
                                         ELSE tag.val])
                       ELSE inner
             typed == IF type_name # ""
                      THEN Put(stored, TypeLabel(p), StringEntry(<<type_name>>))
                      ELSE stored
         IN  LinearizeLoop(typed,
                           IF type_name # "" THEN paths \o p \o <<";">> ELSE paths,
                           tg, var_name, path, i + 1)

__exec_dmscript_linearizeTags(linearized, tg, var_name, path) ==
    LET label == AvailablePathsLabel(var_name)
        available_paths == IF label \in DOMAIN linearized THEN linearized[label].val.s
                           ELSE <<>>
    IN  IF tg.valid
        THEN LinearizeLoop(linearized, available_paths, tg, var_name,
                           __exec_dmscript_escape_non_ascii(path), 1)
        ELSE linearized

(***************************************************************************)
(* Caller-side read-back of one variable from the group stored under the   *)
(* session's persistent tag.                                               *)
(***************************************************************************)
\* str.split at the positions seps of s
RECURSIVE SplitAt(_, _)
SplitAt(s, seps) ==
    IF seps = {} THEN <<s>>
    ELSE LET i == CHOOSE i \in seps : \A j \in seps : i <= j
         IN  <<SubSeq(s, 1, i - 1)>>
             \o SplitAt(SubSeq(s, i + 1, Len(s)), {j - i : j \in seps \ {i}})

NonEmpty(ss) == SelectSeq(ss, LAMBDA x : x # <<>>)

\* list(filter(lambda x: x != "", tg_keys.split(";")))
SplitKeys(tg_keys) == NonEmpty(SplitAt(tg_keys, {i \in 1..Len(tg_keys) : tg_keys[i] = ";"}))

\* _slash_split_reg = (?<!/)/(?!/): a slash with no slash next to it
SlashSplit(tg_key) ==
    NonEmpty(SplitAt(tg_key,
        {i \in 1..Len(tg_key) :
            /\ tg_key[i] = "/"
            /\ (i = 1 \/ tg_key[i - 1] # "/")
            /\ (i = Len(tg_key) \/ tg_key[i + 1] # "/")}))

\* "/".join(paths[0:n])
RECURSIVE JoinPaths(_, _)
JoinPaths(paths, n) ==
    IF n = 1 THEN paths[1] ELSE JoinPaths(paths, n - 1) \o <<"/">> \o paths[n]

\* int(path): [ok, v] or the ValueError
ParseInt(path) ==
    IF Len(path) > 0 /\ \A i \in 1..Len(path) : IsDigit(path[i])
    THEN [ok |-> TRUE, v |-> DigitsValue(path)]
    ELSE [ok |-> FALSE, err |-> "ValueError"]

NumberOf(val) == CASE val.k = "int" -> val.i
                   [] val.k = "float" -> val.f
                   [] val.k = "bool" -> (IF val.b THEN 1 ELSE 0)
                   [] OTHER -> 0

\* DM.GetPersistentTagGroup().GetTagAs<dm_type>(persistent_tag:label) on the
\* session's group: a numeric tag is read as any numeric type
GetTagAs(group, label, dm_type) ==
    LET present == label \in DOMAIN group
        isString == present /\ group[label].type = "String"
        isNumber == present /\ group[label].type # "String"
    IN  CASE dm_type = "String" ->
               [success |-> isString,
                value |-> IF isString THEN group[label].val.s ELSE <<>>]
          [] dm_type = "Long" ->
               [success |-> isNumber,
                value |-> PyInt(IF isNumber THEN NumberOf(group[label].val) ELSE 0)]
          [] dm_type = "Float" ->
               [success |-> isNumber,
                value |-> PyFloat(IF isNumber THEN NumberOf(group[label].val) ELSE 0)]
          [] OTHER ->
               [success |-> isNumber,
                value |-> PyBool(isNumber /\ NumberOf(group[label].val) # 0)]

\* the result of _getParsedValueFromPersistentTags for a tag read as a
\* string: [ok, success, v] or the error unescapeNonAscii raised
ParsedString(got, text) ==
    IF text.ok THEN [ok |-> TRUE, success |-> got.success, v |-> PyStr(text.v)]
    ELSE [ok |-> FALSE, err |-> text.err]

\* _getParsedValueFromPersistentTags once dm_type is looked up: got is what
\* the host returned for the tag
ParsedAs(dm_type, got) ==
    IF dm_type \in {"Long", "Float", "Boolean"}
    THEN [ok |-> TRUE, success |-> got.success, v |-> got.value]
    ELSE ParsedString(got, unescapeNonAscii(got.value))

\* _getParsedValueFromPersistentTags: [ok, success, v] or the error raised
_getParsedValueFromPersistentTags(group, label, var_type) ==
    LET dm_type == get_dm_type(var_type, TRUE)
    IN  IF ~dm_type.ok THEN [ok |-> FALSE, err |-> dm_type.err]
        ELSE IF dm_type.v \in {"Long", "Float", "Boolean", "String"}
        THEN ParsedAs(dm_type.v, GetTagAs(group, label, dm_type.v))
        ELSE [ok |-> FALSE, err |-> "ValueError"]

\* nested Python values addressed by a reference: the sequence of child
\* positions leading from the base value to value_ref
Children(v) == IF v.k = "dict" THEN v.vals ELSE v.items
WithChild(v, pos, c) ==
    IF v.k = "dict" THEN PyDict(v.keys, [v.vals EXCEPT ![pos] = c])
    ELSE PyList([v.items EXCEPT ![pos] = c])

RECURSIVE GetAt(_, _)
GetAt(v, ref) == IF ref = <<>> THEN v ELSE GetAt(Children(v)[Head(ref)], Tail(ref))

RECURSIVE SetAt(_, _, _)
SetAt(v, ref, nv) ==
    IF ref = <<>> THEN nv
    ELSE WithChild(v, Head(ref), SetAt(Children(v)[Head(ref)], Tail(ref), nv))

RaiseIn(st, err) == [st EXCEPT !.raised = TRUE, !.err = err]

\* value_ref with the entry for the segment prepared: a list padded with None
\* up to index, a dict with name added as None if it is missing
Keyed(value_ref, isList, index, name) ==
    IF isList
    THEN (IF index + 1 > Len(value_ref.items)
          THEN PyList(value_ref.items
                      \o [x \in 1..(index + 1 - Len(value_ref.items)) |-> PyNone])
          ELSE value_ref)
    ELSE (IF \E x \in 1..Len(value_ref.keys) : value_ref.keys[x] = name
          THEN value_ref
          ELSE PyDict(Append(value_ref.keys, name), Append(value_ref.vals, PyNone)))

\* the position of the entry in the prepared value_ref
KeyPosition(keyed, isList, index, name) ==
    IF isList THEN index + 1
    ELSE CHOOSE x \in 1..Len(keyed.keys) : keyed.keys[x] = name

\* value_ref[key] = v for a scalar, once parsed
LeafStep(st, ref, cur_type, parsed) ==
    IF ~parsed.ok THEN RaiseIn(st, parsed.err)
    ELSE [st EXCEPT !.value = IF parsed.success THEN SetAt(st.value, ref, parsed.v)
                              ELSE st.value,
                    !.success = st.success /\ parsed.success,
                    !.cur_type = cur_type,
                    !.done = TRUE]

\* the part of the loop body after cur_type is read: st.value holds the
\* prepared entry at ref
TypedStep(group, cur_path, st, ref, cur_type) ==
    IF cur_type \in {"TagGroup", "TagList"}
    THEN [st EXCEPT !.value = IF GetAt(st.value, ref).k
                                   = (IF cur_type = "TagGroup" THEN "dict" ELSE "list")
                              THEN st.value
                              ELSE SetAt(st.value, ref,
                                         IF cur_type = "TagGroup" THEN PyDict(<<>>, <<>>)
                                         ELSE PyList(<<>>)),
                    !.ref = ref,
                    !.cur_type = cur_type]
    ELSE LeafStep(st, ref, cur_type,
                  _getParsedValueFromPersistentTags(group, cur_path, PyAlias(cur_type)))

\* the type name read from the {{type}} tag: names are single tokens
TypeNameOf(stored) == IF Len(stored) = 1 THEN stored[1] ELSE ""

\* the part of the loop body after the key is parsed
KeyedStep(group, cur_path, st, isList, index, name, keyed) ==
    TypedStep(group, cur_path,
              [st EXCEPT !.value = SetAt(st.value, st.ref, keyed)],
              Append(st.ref, KeyPosition(keyed, isList, index, name)),
              TypeNameOf(GetTagAs(group, TypeLabel(cur_path), "String").value))

\* the part of the loop body for a later segment, key being int(path) or
\* unescapeNonAscii(path)
KeyStep(group, paths, i, st, isList, key) ==
    IF ~key.ok THEN RaiseIn(st, key.err)
    ELSE KeyedStep(group, JoinPaths(paths, i), st, isList,
                   IF isList THEN key.v ELSE 0, IF isList THEN <<>> ELSE key.v,
                   Keyed(GetAt(st.value, st.ref), isList,
                         IF isList THEN key.v ELSE 0, IF isList THEN <<>> ELSE key.v))

\* the body of "for i, path in enumerate(paths)" for the i-th segment (i from 1)
PathStep(group, py_type, paths, i, st) ==
    IF i = 1
    THEN [st EXCEPT !.cur_type = IF py_type = "dict" THEN "TagGroup" ELSE "TagList",
                    !.value = IF st.value.k # "none" THEN st.value
                              ELSE IF py_type = "dict" THEN PyDict(<<>>, <<>>)
                              ELSE PyList(<<>>),
                    !.ref = <<>>]
    ELSE IF st.cur_type = "TagList"
    THEN KeyStep(group, paths, i, st, TRUE, ParseInt(paths[i]))
    ELSE IF st.cur_type = "TagGroup"
    THEN KeyStep(group, paths, i, st, FALSE, unescapeNonAscii(paths[i]))
    ELSE [st EXCEPT !.done = TRUE]

RECURSIVE WalkPaths(_, _, _, _, _)
WalkPaths(group, py_type, paths, i, st) ==
    IF i > Len(paths) \/ st.raised \/ st.done THEN st
    ELSE WalkPaths(group, py_type, paths, i + 1, PathStep(group, py_type, paths, i, st))

\* "for tg_key in tg_keys" from the j-th key on
RECURSIVE WalkKeys(_, _, _, _, _)
WalkKeys(group, py_type, tg_keys, j, st) ==
    IF j > Len(tg_keys) \/ st.raised THEN st
    ELSE WalkKeys(group, py_type, tg_keys, j + 1,
                  WalkPaths(group, py_type, SlashSplit(tg_keys[j]), 1,
                            [st EXCEPT !.done = FALSE]))

LoadStart(success) ==
    [value |-> PyNone, success |-> success, raised |-> FALSE, err |-> "",
     ref |-> <<>>, cur_type |-> "", done |-> FALSE]

\* the container branch, manifest being what the host returned for the
\* {{available-paths}} tag
LoadContainer(group, py_type, manifest) ==
    IF manifest.success
    THEN WalkKeys(group, py_type, SplitKeys(manifest.value), 1, LoadStart(TRUE))
    ELSE LoadStart(FALSE)

\* the scalar branch, once parsed
LoadScalar(scalar) ==
    IF ~scalar.ok THEN RaiseIn(LoadStart(FALSE), scalar.err)
    ELSE [LoadStart(scalar.success) EXCEPT !.value = scalar.v]

\* one iteration of the loop of _loadVariablesFromDMScript over readvars:
\* [raised, err, success, value]
LoadVariable(group, var_name, var_type) ==
    LET py_type == get_python_type(var_type)
    IN  IF ~py_type.ok THEN RaiseIn(LoadStart(FALSE), py_type.err)
        ELSE IF py_type.v \in {"dict", "list", "tuple"}
        THEN LoadContainer(group, py_type.v,
                           GetTagAs(group, AvailablePathsLabel(var_name), "String"))
        ELSE LoadScalar(_getParsedValueFromPersistentTags(group, var_name, var_type))

\* dict item assignment on a [keys, vals] mapping
DictSet(d, key, val) ==
    IF \E x \in 1..Len(d.keys) : d.keys[x] = key
    THEN PyDict(d.keys, [x \in 1..Len(d.vals) |-> IF d.keys[x] = key THEN val ELSE d.vals[x]])
    ELSE PyDict(Append(d.keys, key), Append(d.vals, val))

RECURSIVE LoadLoop(_, _, _, _)

\* the end of one iteration, r being what the variable's branch gave
LoadNext(group, readvars, j, synchronized_vars, r) ==
    IF r.raised
    THEN [raised |-> TRUE, err |-> r.err, synchronized_vars |-> synchronized_vars]
    ELSE LoadLoop(group, readvars, j + 1,
                  IF r.success THEN DictSet(synchronized_vars, readvars.keys[j], r.value)
                  ELSE synchronized_vars)

\* the loop of _loadVariablesFromDMScript from the j-th readvars entry on
LoadLoop(group, readvars, j, synchronized_vars) ==
    IF j > Len(readvars.keys)
    THEN [raised |-> FALSE, err |-> "", synchronized_vars |-> synchronized_vars]
    ELSE LoadNext(group, readvars, j, synchronized_vars,
                  LoadVariable(group, readvars.keys[j], readvars.vals[j]))

(***************************************************************************)
(* The host executing the synchronizing code of getSyncDMCode: the group   *)
(* it leaves under the persistent tag, given the values var_values the     *)
(* script's variables hold (one per readvars entry, in order).             *)
(***************************************************************************)
RECURSIVE HostSyncLoop(_, _, _, _)
HostSyncLoop(group, readvars, var_values, j) ==
    IF j > Len(readvars.keys) THEN group
    ELSE LET var_name == readvars.keys[j]
             py_type == get_python_type(readvars.vals[j]).v
             val == var_values[j]
             next == IF py_type \in {"dict", "list", "tuple"}
                     THEN __exec_dmscript_linearizeTags(group, val, var_name, var_name)
                     ELSE Put(group, var_name,
                              [type |-> get_dm_type(readvars.vals[j], TRUE).v,
                               val |-> IF py_type = "str"
                                       THEN PyStr(__exec_dmscript_escape_non_ascii(val.s))
                                       ELSE val])
         IN  HostSyncLoop(next, readvars, var_values, j + 1)

HostSync(readvars, var_values) == HostSyncLoop(EmptyGroup, readvars, var_values, 1)

(***************************************************************************)
(* Script assembler                                                        *)
(***************************************************************************)
debug_start_marker == "@execdmscript.ignore.start"
debug_end_marker == "@execdmscript.ignore.end"

\* number of lines of the helper-routine source
LibLines == 188

\* a loop that clears comment_lines before the line with the end marker is
\* prefixed
CommentDebugLinesExclusive(lines) ==
    LET starts == {j \in 1..Len(lines) : Contains(lines[j], debug_start_marker)}
        comment_lines(i) ==
            \E j \in starts :
                /\ j <= i
                /\ \A k \in j..i : ~Contains(lines[k], debug_end_marker)
    IN  [i \in 1..Len(lines) |->
            IF comment_lines(i) THEN <<"// ">> \o lines[i] ELSE lines[i]]

\* the loop of _addCode that comments out the debug regions.  comment_lines is
\* True while line i is handled iff some line j <= i holds the start marker and
\* no line from j to i - 1 holds the end marker (the flag is set before the line
\* is prefixed and cleared after it).
CommentDebugLines(lines) ==
    LET starts == {j \in 1..Len(lines) : Contains(lines[j], debug_start_marker)}
        comment_lines(i) ==
            \E j \in starts :
                /\ j <= i
                /\ \A k \in j..(i - 1) : ~Contains(lines[k], debug_end_marker)
    IN  [i \in 1..Len(lines) |->
            IF comment_lines(i) THEN <<"// ">> \o lines[i] ELSE lines[i]]

\* the code of an assembly in progress: the fragments appended so far, the
\* recorded spans and the start line of the next fragment, or the error raised
NewAssembly == [ok |-> TRUE, dmscript |-> <<>>, sources |-> <<>>, startpos |-> 1]

Raise(asm, err) == [ok |-> FALSE, err |-> err, sources |-> asm.sources]

\* an _addCode that takes the number of lines of the code for the number of
\* its newlines
_addCodeCountingLines(asm, code, origin_name, origin_detail, remove_debug_lines) ==
    IF ~asm.ok THEN asm
    ELSE IF code.t \notin {"list", "str"} THEN Raise(asm, "ValueError")
    ELSE LET joined == IF code.t = "list" THEN Flatten(code.v) ELSE code.v
         IN  [ok |-> TRUE,
              dmscript |-> Append(asm.dmscript,
                                  IF remove_debug_lines THEN CommentDebugLines(joined)
                                  ELSE joined),
              sources |-> Append(asm.sources,
                                 [start |-> asm.startpos,
                                  end |-> asm.startpos + Len(joined),
                                  origin_name |-> origin_name,
                                  origin_detail |-> origin_detail]),
              startpos |-> asm.startpos + Len(joined) + 1]

\* _addCode: code is [t |-> "list", v |-> list of str], [t |-> "str", v |-> str]
\* or a value of another type, for which ValueError is raised
_addCode(asm, code, origin_name, origin_detail, remove_debug_lines) ==
    IF ~asm.ok THEN asm
    ELSE IF code.t \notin {"list", "str"} THEN Raise(asm, "ValueError")
    ELSE LET code_lines ==
                 IF code.t = "list"
                 THEN SumSeq([i \in 1..Len(code.v) |-> Len(code.v[i]) - 1])
                      + Len(code.v) - 1
                 ELSE Len(code.v) - 1
             joined == IF code.t = "list" THEN Flatten(code.v) ELSE code.v
             text == IF remove_debug_lines THEN CommentDebugLines(joined)
                     ELSE joined
         IN  [ok |-> TRUE,
              dmscript |-> Append(asm.dmscript, text),
              sources |-> Append(asm.sources,
                                 [start |-> asm.startpos,
                                  end |-> asm.startpos + code_lines,
                                  origin_name |-> origin_name,
                                  origin_detail |-> origin_detail]),
              startpos |-> asm.startpos + code_lines + 1]

StrCode(v) == [t |-> "str", v |-> v]
Method(name) == [k |-> "method", name |-> name]

HeaderComment == [t |-> "list",
                  v |-> << << <<"// This code is created automatically by concatenating files and ">> >>,
                           << <<"// code fragments.">> >>,
                           << <<"// ">> >>,
                           << <<"// This code is generated with the exedmscript module.">> >>,
                           << <<"//">> >>,
                           << <<"//", " =", "* 50">> >> >>]

\* getSetVarsDMCode: [ok, v] or the error raised by getDMCodeForVariable
getSetVarsDMCode(self) ==
    IF self.setvars.k # "dict" THEN [ok |-> TRUE, v |-> << <<>> >>]
    ELSE LET codes == [i \in 1..Len(self.setvars.keys) |->
                          getDMCodeForVariable(self.setvars.keys[i],
                                               self.setvars.vals[i], TRUE)]
             bad == {i \in 1..Len(codes) : ~codes[i].ok}
         IN  IF bad # {}
             THEN [ok |-> FALSE, err |-> codes[CHOOSE i \in bad : \A j \in bad : i <= j].err]
             ELSE [ok |-> TRUE,
                   v |-> << <<"// Setting variables from python values">> >>
                         \o Flatten([i \in 1..Len(codes) |-> codes[i].v])]

\* "sync_taggroup_" + self._creation_time_id
SyncTg(self) == <<"sync_taggroup_", ToString(self._creation_time_id)>>

\* "python-dm-communication-" + self._creation_time_id, as a token
PersistentTagToken(self) == <<"python-dm-communication-", ToString(self._creation_time_id)>>

\* the statements getSyncDMCode emits for one readvars entry
SyncCodeForVariable(self, var_name, var_type) ==
    LET py_type == get_python_type(var_type)
        var == escape_dm_variable(var_name)
        tg == SyncTg(self)
        key == Quoted(var_name)
    IN  IF ~py_type.ok THEN [ok |-> FALSE, err |-> py_type.err]
        ELSE IF ~var.ok THEN [ok |-> FALSE, err |-> var.err]
        ELSE IF py_type.v \in {"dict", "list", "tuple"}
        THEN [ok |-> TRUE,
              v |-> << <<"__exec_dmscript_linearizeTags(">> \o tg \o <<"_tg", ", ">>
                       \o var.v \o <<", ">> \o key \o <<", ">> \o key \o <<")", ";">> >>]
        ELSE LET val == IF py_type.v = "str"
                        THEN <<"__exec_dmscript_escape_non_ascii(">> \o var.v \o <<")">>
                        ELSE var.v
             IN  [ok |-> TRUE,
                  v |-> << <<"// Synchronizing ">> \o val,
                           tg \o <<"_index", " = ">> \o tg
                           \o <<"_tg", ".TagGroupCreateNewLabeledTag(">> \o key
                           \o <<")", ";">>,
                           tg \o <<"_tg", ".TagGroupSetIndexedTagAs",
                                   get_dm_type(var_type, TRUE).v, "(">> \o tg
                           \o <<"_index", ", ">> \o val \o <<")", ";">> >>]

\* getSyncDMCode: [ok, v] or the error raised
getSyncDMCode(self) ==
    IF self.readvars.k # "dict" \/ Len(self.readvars.keys) = 0
    THEN [ok |-> TRUE, v |-> << <<>> >>]
    ELSE LET tg == SyncTg(self)
             sync_code_prefix ==
                 << <<>>,
                    <<"// Adding synchronizing machanism by using persistent tags.">>,
                    <<"TagGroup", " ">> \o tg \o <<"_user", " = ", "GetPersistentTagGroup()", ";">>,
                    <<"number", " ">> \o tg \o <<"_index", " = ">> \o tg
                    \o <<"_user", ".TagGroupCreateNewLabeledTag(", "\"">>
                    \o PersistentTagToken(self) \o <<"\"", ")", ";">>,
                    <<"TagGroup", " ">> \o tg \o <<"_tg", " = ", "NewTagGroup()", ";">>,
                    tg \o <<"_user", ".TagGroupSetIndexedTagAsTagGroup(">> \o tg
                    \o <<"_index", ", ">> \o tg \o <<"_tg", ")", ";">>,
                    <<>> >>
             codes == [i \in 1..Len(self.readvars.keys) |->
                          SyncCodeForVariable(self, self.readvars.keys[i],
                                              self.readvars.vals[i])]
             bad == {i \in 1..Len(codes) : ~codes[i].ok}
         IN  IF bad # {}
             THEN [ok |-> FALSE, err |-> codes[CHOOSE i \in bad : \A j \in bad : i <= j].err]
             ELSE [ok |-> TRUE,
                   v |-> sync_code_prefix \o Flatten([i \in 1..Len(codes) |-> codes[i].v])]

\* _getExecdmscriptLibFunctions: the helper routines, line by line
_getExecdmscriptLibFunctions == [i \in 1..LibLines |-> <<"lib", ToString(i)>>]

ThreadId(self, index) == <<ToString(self._creation_time_id), "_", ToString(index)>>

getSeparateThreadStartCode(self, index) ==
    << <<"object thread_cancel_signal">> \o ThreadId(self, index)
       \o <<" = ", "NewCancelSignal()", ";">>,
       <<"object thread_done_signal">> \o ThreadId(self, index)
       \o <<" = ", "NewSignal(0)", ";">>,
       <<"class ExecDMScriptThread">> \o ThreadId(self, index) \o <<" : Thread{">>,
       <<"void RunThread(object self){">> >>

getSeparateThreadEndCode(self, index) ==
    << <<"// inform that the thread is done now">>,
       <<"thread_done_signal">> \o ThreadId(self, index) \o <<".setSignal()", ";">>,
       <<"}">>,
       <<"}">>,
       <<"alloc(ExecDMScriptThread">> \o ThreadId(self, index)
       \o <<")", ".StartThread()", ";">> >>

\* a path open() fails for, and a file or writable object holding text
NoFile == [k |-> "nofile"]
FileWith(text) == [k |-> "text", v |-> text]

\* the three fragments appended for the scripts from index i on; fs gives the
\* content of each file path, NoFile where open() fails
RECURSIVE AddScripts(_, _, _, _, _)
AddScripts(asm, self, fs, i, dm_file_added) ==
    IF ~asm.ok \/ i > Len(self.scripts) THEN asm
    ELSE LET kind == self.scripts[i].kind
             script == self.scripts[i].script
             isFile == kind = "file"
             source == IF isFile THEN script
                       ELSE <<"<inline script in parameter ", ToString(i - 1), ">">>
             comment == IF isFile THEN << <<"// File ">> \o escape_dm_string(script) >>
                        ELSE << <<"// Directly given script">> >>
             dm__file__ == IF isFile THEN script ELSE <<"<inline>">>
             code == IF isFile THEN fs[script].v ELSE script
             marker == getDMCodeForVariable(<<"_", "_", "f", "i", "l", "e", "_", "_">>,
                                            PyStr(dm__file__), ~dm_file_added)
             a1 == _addCode(asm, StrCode(marker.v), <<"<__file__>">>, PyNone, TRUE)
             a2 == _addCode(a1, StrCode(comment), <<"<comments>">>, PyNone, TRUE)
             a3 == _addCode(a2, StrCode(code), source, [k |-> "script", v |-> script], TRUE)
         IN  IF isFile /\ fs[script].k = "nofile" THEN Raise(asm, "FileNotFoundError")
             ELSE AddScripts(a3, self, fs, i + 1, TRUE)

\* the fragments appended for the separate_thread bodies from index i on;
\* the body is handed to _addCode as bytes (code.encode("iso-8859-1"))
RECURSIVE AddSeparateThreads(_, _, _, _)
AddSeparateThreads(asm, self, fs, i) ==
    IF ~asm.ok \/ self.separate_thread.k # "seq" THEN asm
    ELSE IF i > Len(self.separate_thread.items) THEN asm
    ELSE LET kind == self.separate_thread.items[i].kind
             script == self.separate_thread.items[i].script
             isFile == kind = "file"
             source == IF isFile THEN script
                       ELSE <<"<separate_thread parameter ", ToString(i - 1), ">">>
             comment == IF isFile THEN << <<"// File ">> \o escape_dm_string(script) >>
                        ELSE << <<"// Directly given script">> >>
             code == IF isFile THEN fs[script].v ELSE script
             a1 == _addCode(asm, StrCode(getSeparateThreadStartCode(self, i - 1)),
                            <<"<prepare separate thread>">>,
                            Method("getSeparateThreadStartCode"), TRUE)
             a2 == _addCode(a1, StrCode(comment), <<"<comments>">>, PyNone, TRUE)
             a3 == _addCode(a2, [t |-> "bytes", v |-> code], source,
                            [k |-> "script", v |-> script], TRUE)
             a4 == _addCode(a3, StrCode(getSeparateThreadEndCode(self, i - 1)),
                            <<"<prepare separate thread>">>,
                            Method("getSeparateThreadEndCode"), TRUE)
         IN  IF isFile /\ fs[script].k = "nofile" THEN Raise(a1, "FileNotFoundError")
             ELSE AddSeparateThreads(a4, self, fs, i + 1)

\* _addCode for generated code that is [ok, v], or the error its generator
\* raised
AddGenerated(asm, code, origin_name, origin_detail) ==
    IF ~asm.ok THEN asm
    ELSE IF code.ok THEN _addCode(asm, StrCode(code.v), origin_name, origin_detail, TRUE)
    ELSE Raise(asm, code.err)

\* "\n".join(dmscript) and the spans recorded, or the error raised
Joined(asm) ==
    IF asm.ok
    THEN [ok |-> TRUE, text |-> Flatten(asm.dmscript), sources |-> asm.sources,
          fragments |-> asm.dmscript]
    ELSE asm

\* an assembly that emits the synchronizing code before the lib functions
getExecDMScriptCodeSyncFirst(self, fs) ==
    Joined(
        _addCode(
            AddGenerated(
                AddSeparateThreads(
                    AddScripts(
                        AddGenerated(
                            _addCode(NewAssembly, HeaderComment, <<"<comments>">>,
                                     PyNone, TRUE),
                            getSetVarsDMCode(self), <<"<setvars>">>,
                            Method("getSetVarsDMCode")),
                        self, fs, 1, FALSE),
                    self, fs, 1),
                getSyncDMCode(self), <<"<readvars>">>, Method("getSyncDMCode")),
            StrCode(_getExecdmscriptLibFunctions), <<"<execdmscript lib functions>">>,
            Method("_getExecdmscriptLibFunctions"), TRUE))

\* getExecDMScriptCode: [ok, text, sources] with the assembled text and the
\* value left in self._script_sources, or [ok, err, sources] when it raises
getExecDMScriptCode(self, fs) ==
    Joined(
        AddGenerated(
            _addCode(
                AddSeparateThreads(
                    AddScripts(
                        AddGenerated(
                            _addCode(NewAssembly, HeaderComment, <<"<comments>">>,
                                     PyNone, TRUE),
                            getSetVarsDMCode(self), <<"<setvars>">>,
                            Method("getSetVarsDMCode")),
                        self, fs, 1, FALSE),
                    self, fs, 1),
                StrCode(_getExecdmscriptLibFunctions), <<"<execdmscript lib functions>">>,
                Method("_getExecdmscriptLibFunctions"), TRUE),
            getSyncDMCode(self), <<"<readvars>">>, Method("getSyncDMCode")))

(***************************************************************************)
(* The session object.                                                     *)
(***************************************************************************)
\* round(time.time() * 100) for a time of now steps of 5 ms, i.e. now / 2
\* hundredths: Python rounds a half to the even neighbour
PyRound(now) ==
    LET q == now \div 2
    IN  IF now % 2 = 0 THEN q ELSE IF q % 2 = 0 THEN q ELSE q + 1

\* a merge of setvars into readvars that overwrites the caller's types
RECURSIVE AddSetvarTypesOverwriting(_, _, _)
AddSetvarTypesOverwriting(readvars, setvars, i) ==
    IF i > Len(setvars.keys) THEN readvars
    ELSE AddSetvarTypesOverwriting(
             DictSet(readvars, setvars.keys[i], TypeOf(setvars.vals[i])),
             setvars, i + 1)

\* the readvars after "for key, val in self.setvars.items()" from entry i on
RECURSIVE AddSetvarTypes(_, _, _)
AddSetvarTypes(readvars, setvars, i) ==
    IF i > Len(setvars.keys) THEN readvars
    ELSE AddSetvarTypes(
             IF \E x \in 1..Len(readvars.keys) : readvars.keys[x] = setvars.keys[i]
             THEN readvars
             ELSE DictSet(readvars, setvars.keys[i], TypeOf(setvars.vals[i])),
             setvars, i + 1)

\* DMScriptWrapper.__init__ at time now, for scripts in normalized form
__init__(scripts, readvars, setvars, separate_thread, debug, debug_file, now) ==
    [scripts |-> scripts,
     _creation_time_id |-> PyRound(now),
     readvars |-> IF setvars.k = "dict"
                  THEN AddSetvarTypes(IF readvars.k = "dict" THEN readvars
                                      ELSE PyDict(<<>>, <<>>), setvars, 1)
                  ELSE readvars,
     setvars |-> setvars,
     synchronized_vars |-> PyDict(<<>>, <<>>),
     separate_thread |-> separate_thread,
     debug |-> debug,
     debug_file |-> debug_file,
     _script_sources |-> <<>>]

\* a remove_global_tag that leaves the persistent tags as they are
keep_global_tag(tags, tagname) == tags

\* a remove_global_tag that leaves an empty tag where it finds none to delete
toggle_global_tag(tags, tagname) ==
    IF tagname \in DOMAIN tags THEN [x \in (DOMAIN tags) \ {tagname} |-> tags[x]]
    ELSE Put(tags, tagname, EmptyGroup)

\* remove_global_tag on the host's persistent tags
remove_global_tag(tags, tagname) == [x \in (DOMAIN tags) \ {tagname} |-> tags[x]]

\* freeAllSyncedVars: the persistent tags it leaves
freeAllSyncedVars(self, tags) == remove_global_tag(tags, PersistentTagToken(self))

\* a getSyncedVar that subscripts synchronized_vars without the membership
\* test
getSyncedVarSubscript(self, var_name) ==
    IF \E x \in 1..Len(self.synchronized_vars.keys) :
           self.synchronized_vars.keys[x] = var_name
    THEN [ok |-> TRUE,
          v |-> self.synchronized_vars.vals[
                    CHOOSE x \in 1..Len(self.synchronized_vars.keys) :
                        self.synchronized_vars.keys[x] = var_name]]
    ELSE [ok |-> FALSE, err |-> "KeyError"]

\* getSyncedVar, which __getitem__ returns the result of, for a var_name
\* that is a str
getSyncedVar(self, var_name) ==
    IF ~(\E x \in 1..Len(self.synchronized_vars.keys) :
             self.synchronized_vars.keys[x] = var_name)
    THEN [ok |-> TRUE, v |-> PyNone]
    ELSE [ok |-> TRUE,
          v |-> self.synchronized_vars.vals[
                    CHOOSE x \in 1..Len(self.synchronized_vars.keys) :
                        self.synchronized_vars.keys[x] = var_name]]

\* an end of _loadVariablesFromDMScript without freeAllSyncedVars
LoadedKeepingTags(self, tags, r) ==
    [self |-> [self EXCEPT !.synchronized_vars = r.synchronized_vars],
     store |-> tags, raised |-> r.raised, err |-> r.err, freed |-> FALSE]

\* the end of _loadVariablesFromDMScript, r being what its loop gave
Loaded(self, tags, r) ==
    [self |-> [self EXCEPT !.synchronized_vars = r.synchronized_vars],
     store |-> IF r.raised THEN tags ELSE freeAllSyncedVars(self, tags),
     raised |-> r.raised, err |-> r.err, freed |-> ~r.raised]

\* the group the host returns the session's tags from
SessionGroup(self, tags) ==
    IF PersistentTagToken(self) \in DOMAIN tags THEN tags[PersistentTagToken(self)]
    ELSE EmptyGroup

\* _loadVariablesFromDMScript: the object and the persistent tags it leaves,
\* and whether it raised
_loadVariablesFromDMScript(self, tags) ==
    IF self.readvars.k # "dict"
    THEN [self |-> [self EXCEPT !.synchronized_vars = PyDict(<<>>, <<>>)],
          store |-> tags, raised |-> FALSE, err |-> "", freed |-> FALSE]
    ELSE Loaded(self, tags,
                LoadLoop(SessionGroup(self, tags), self.readvars, 1, PyDict(<<>>, <<>>)))

\* DMScriptError(msg, script_origin, line_in_origin, line_in_complete)
DMScriptError(msg, script_origin, line_in_origin, line_in_complete) ==
    [type |-> "DMScriptError", msg |-> msg, script_origin |-> script_origin,
     line_in_origin |-> line_in_origin, line_in_complete |-> line_in_complete]

\* re.match(r"Error in line ([\d]+)\s*\n(.*)", message) on a message given
\* line by line: [ok, line, msg], msg being group 2 as a one-line text
MatchError(message) ==
    LET first == message[1]
        blank(l) == \A i \in 1..Len(l) : l[i] = " "
        digits == {k \in 2..Len(first) : \A i \in 2..k : IsDigit(first[i])}
        last_digit == CHOOSE k \in digits : \A j \in digits : j <= k
        \* \s* runs over the blank lines that follow, as long as a line is left
        rest == {k \in 2..Len(message) : \A j \in 2..(k - 1) : blank(message[j])}
        stop == {k \in rest : ~blank(message[k]) \/ k = Len(message)}
        k == CHOOSE k \in stop : \A j \in stop : k <= j
    IN  IF /\ Len(message) >= 2
           /\ Len(first) >= 2
           /\ first[1] = "Error in line "
           /\ digits # {}
           /\ blank(SubSeq(first, last_digit + 1, Len(first)))
        THEN [ok |-> TRUE, line |-> DigitsValue(SubSeq(first, 2, last_digit)),
              msg |-> <<message[k]>>]
        ELSE [ok |-> FALSE]

\* the first of the spans that contains line, 0 if there is none
FirstSpan(sources, line) ==
    LET hits == {j \in 1..Len(sources) :
                    sources[j].start <= line /\ line <= sources[j].end}
    IN  IF hits = {} THEN 0 ELSE CHOOSE j \in hits : \A i \in hits : j <= i

DefaultPath == <<"tmp-execdmscript.s">>
ScriptFiles == [p \in {<<"f">>} |-> FileWith(<< <<"x">>, <<>> >>)]

\* file.write(text) on content: the text is appended
WriteText(content, text) ==
    SubSeq(content, 1, Len(content) - 1)
    \o <<content[Len(content)] \o text[1]>> \o Tail(text)

\* what a __call__ leaves and how it ended, for a call that does not reach
\* the read-back
Outcome(self, tags, fl, executed, returned, error) ==
    [self |-> self, store |-> tags, files |-> fl, assembled |-> TRUE,
     executed |-> executed, readback |-> FALSE, rb_raised |-> FALSE,
     freed |-> FALSE, returned |-> returned, error |-> error]

\* "self._loadVariablesFromDMScript(); return True", rb being what the
\* read-back left
ReadBack(fl, rb) ==
    [self |-> rb.self, store |-> rb.store, files |-> fl, assembled |-> TRUE,
     executed |-> TRUE, readback |-> TRUE, rb_raised |-> rb.raised,
     freed |-> rb.freed, returned |-> IF rb.raised THEN "raise" ELSE "True",
     error |-> IF rb.raised THEN [type |-> rb.err] ELSE PyNone]

\* the handler "except RuntimeError as e" and what follows it, matches being
\* the result of re.match on str(e) and span the first span holding the line
Handle(self, tags, fl, message, matches, span) ==
    IF ~matches.ok
    THEN Outcome(self, tags, fl, TRUE, "raise",
                 [type |-> "RuntimeError", message |-> message])
    ELSE IF span # 0
    THEN Outcome(self, tags, fl, TRUE, "raise",
                 DMScriptError(matches.msg, self._script_sources[span].origin_name,
                               matches.line - self._script_sources[span].start + 1,
                               matches.line))
    ELSE ReadBack(fl, _loadVariablesFromDMScript(self, tags))

Matched(self, tags, fl, message, matches) ==
    Handle(self, tags, fl, message, matches,
           IF matches.ok THEN FirstSpan(self._script_sources, matches.line) ELSE 0)

\* the persistent tags after DM.ExecuteScriptString ended with host
Executed(self, tags, host) ==
    IF self.readvars.k # "dict" \/ Len(self.readvars.keys) = 0 THEN tags
    ELSE IF host.k = "ok"
    THEN Put(tags, PersistentTagToken(self), HostSync(self.readvars, host.var_values))
    ELSE IF host.partial THEN Put(tags, PersistentTagToken(self), EmptyGroup)
    ELSE tags

\* the else branch of __call__: the script is executed
Execute(self, tags, fl, host) ==
    IF host.k = "fail"
    THEN Matched(self, tags, fl, host.message, MatchError(host.message))
    ELSE ReadBack(fl, _loadVariablesFromDMScript(self, tags))

\* __call__ after the debug target is determined: opened tells whether
\* debug_file is not None, fl holds the files after open()
Opened(self, code, tags, fl, target, opened, host) ==
    IF self.debug /\ opened
    THEN Outcome(self, tags,
                 [fl EXCEPT ![target] =
                     FileWith(WriteText(IF fl[target].k = "text" THEN fl[target].v
                                        ELSE << <<>> >>, code.text))],
                 FALSE, "True", PyNone)
    ELSE Execute(self, Executed(self, tags, host), fl, host)

\* __call__: the object, the persistent tags and the files it leaves and what
\* it returned or raised.  code is the outcome of its first statement,
\* self.getExecDMScriptCode(), canOpen tells whether open(path, "w+")
\* succeeds, host is the outcome of DM.ExecuteScriptString:
\* [k |-> "ok", var_values] with the values the script's variables hold when
\* the synchronizing code runs, or [k |-> "fail", message, partial] for a
\* RuntimeError, partial telling whether the session's tag was created
\* before the failure
__call__(self, code, tags, fl, canOpen, host) ==
    IF ~code.ok
    THEN [Outcome([self EXCEPT !._script_sources = code.sources], tags, fl, FALSE,
                  "raise", [type |-> code.err])
          EXCEPT !.assembled = FALSE]
    ELSE IF self.debug_file.k = "file"
    THEN Opened([self EXCEPT !._script_sources = code.sources], code, tags, fl,
                self.debug_file.name, TRUE, host)
    ELSE Opened([self EXCEPT !._script_sources = code.sources], code, tags,
                IF canOpen
                THEN [fl EXCEPT ![IF self.debug_file.k = "str" THEN self.debug_file.s
                                  ELSE DefaultPath] = FileWith(<< <<>> >>)]
                ELSE fl,
                IF self.debug_file.k = "str" THEN self.debug_file.s ELSE DefaultPath,
                canOpen, host)

(***************************************************************************)
(* Spec: a session created with any of the parameter sets, run, used as a  *)
(* scoped resource, released and collected, against one host.  SpecPair    *)
(* below follows two sessions at once.                                     *)
(***************************************************************************)
Sessions == 1..MaxSessions

NoObject == [k |-> "noobject"]
DebugPath == <<"d">>
DebugObject == [k |-> "file", name |-> <<"<object>">>]
Targets == {DebugPath, DefaultPath, DebugObject.name}

NoStep == [op |-> "none", s |-> 0, assembled |-> FALSE, executed |-> FALSE,
           readback |-> FALSE, rb_raised |-> FALSE, freed |-> FALSE,
           had_entry |-> FALSE, returned |-> "none", error |-> PyNone,
           message |-> <<>>, canOpen |-> FALSE]

LifecycleIdle ==
    /\ clock = 0
    /\ pc = [s \in Sessions |-> "absent"]
    /\ obj = [s \in Sessions |-> NoObject]
    /\ store = EmptyGroup
    /\ files = [t \in Targets |-> NoFile]
    /\ released = [s \in Sessions |-> FALSE]
    /\ last = NoStep

InlineScript == [kind |-> "script", script |-> << <<"x">>, <<"y">> >>]

\* the parameter sets sessions are created with
Params ==
    {[scripts |-> <<InlineScript>>, readvars |-> rv, setvars |-> sv,
      separate_thread |-> PyNone, debug |-> FALSE, debug_file |-> PyNone] :
        rv \in {PyNone,
                PyDict(<< <<"c">>, <<"a">> >>, <<PyAlias("Integer"), PyType("list")>>)},
        sv \in {PyNone}}
    \cup {[scripts |-> <<InlineScript>>, readvars |-> PyNone,
           setvars |-> PyDict(<< <<"x">> >>, <<PyList(<<PyInt(1)>>)>>),
           separate_thread |-> PyNone, debug |-> d, debug_file |-> f] :
            d \in BOOLEAN, f \in {PyNone, PyStr(DebugPath), DebugObject}}
    \cup {[scripts |-> <<>>, readvars |-> PyNone, setvars |-> PyNone,
           separate_thread |-> [k |-> "seq", items |-> <<InlineScript>>],
           debug |-> FALSE, debug_file |-> PyNone]}

\* the values a script can leave in the variable read back as var_type
ScriptValuesFor(var_type) ==
    LET py_type == get_python_type(var_type).v
    IN  CASE py_type = "int" -> {PyInt(7)}
          [] py_type = "float" -> {PyFloat(2)}
          [] py_type = "bool" -> {PyBool(TRUE)}
          [] py_type = "str" -> {PyStr(<<"u181">>)}
          [] OTHER -> {BuildTags(PyList(<<PyInt(1)>>)),
                       BuildTags(PyDict(<< <<"k">> >>, <<PyInt(1)>>)),
                       TG(TRUE, <<Tag(<<>>, 2, PyInt(3))>>),
                       InvalidTG}

ScriptValues(self) ==
    IF self.readvars.k # "dict" THEN {<<>>}
    ELSE LET n == Len(self.readvars.keys)
             all == UNION {ScriptValuesFor(self.readvars.vals[j]) : j \in 1..n}
         IN  {vv \in [1..n -> all] :
                 \A j \in 1..n : vv[j] \in ScriptValuesFor(self.readvars.vals[j])}

\* the line numbers a host failure reports: outside of every span, and the
\* first and the last line of a script given by the caller
FailureLines(sources) ==
    {0} \cup {sources[Len(sources)].end + 1 : x \in {y \in {1} : Len(sources) > 0}}
    \cup UNION {{sources[j].start, sources[j].end} :
                   j \in {i \in 1..Len(sources) : sources[i].origin_detail.k = "script"}}

\* the texts that follow "Error in line N" in a host failure
FailureTails == {<< <<"boom">> >>, << <<"boom">>, <<"at f">> >>}

\* the messages of host failures: "Error in line N" followed by one of tails,
\* and one message of another form
FailureMessages(sources, tails) ==
    {<< <<"Error in line ">> \o Digits(n) >> \o tail :
        n \in FailureLines(sources), tail \in tails}
    \cup {<< <<"Sorry">> >>}

\* the outcomes of open(path, "w+") where __call__ reaches it
OpenOutcomes(self, code) ==
    IF ~code.ok \/ self.debug_file.k = "file" THEN {FALSE} ELSE BOOLEAN

\* the writable object handed in as debug_file holds fewer than MaxFileLines
\* lines
RoomToWrite(self, fl) ==
    IF self.debug_file.k # "file" THEN TRUE
    ELSE IF fl[self.debug_file.name].k = "nofile" THEN TRUE
    ELSE Len(fl[self.debug_file.name].v) < MaxFileLines

\* the outcomes of DM.ExecuteScriptString where __call__ reaches it
HostOutcomes(self, code, canOpen, tails) ==
    IF ~code.ok \/ (self.debug /\ (canOpen \/ self.debug_file.k = "file"))
    THEN {[k |-> "none"]}
    ELSE {[k |-> "ok", var_values |-> vv] : vv \in ScriptValues(self)}
         \cup {[k |-> "fail", message |-> m, partial |-> p] :
                  m \in FailureMessages(code.sources, tails), p \in BOOLEAN}

Init ==
    /\ arg = NoResult
    /\ res = NoResult
    /\ LifecycleIdle

\* caller: DMScriptWrapper(...) with one of the parameter sets params, at a
\* time not before the last reading
New(s, params) ==
    /\ pc[s] = "absent"
    /\ \E now \in clock..MaxTime : \E p \in params :
          /\ clock' = now
          /\ obj' = [obj EXCEPT ![s] = __init__(p.scripts, p.readvars, p.setvars,
                                                p.separate_thread, p.debug,
                                                p.debug_file, now)]
    /\ pc' = [pc EXCEPT ![s] = "created"]
    /\ last' = [NoStep EXCEPT !.op = "new", !.s = s]
    /\ UNCHANGED <<arg, res, store, files, released>>

\* the state after a __call__ of session s that ended as r; then is the
\* caller's position after it returned, else after it raised
Ran(s, op, then, else, canOpen, host, r) ==
    /\ obj' = [obj EXCEPT ![s] = r.self]
    /\ store' = r.store
    /\ files' = r.files
    /\ released' = [released EXCEPT ![s] = r.freed]
    /\ pc' = [pc EXCEPT ![s] = IF r.returned = "True" THEN then ELSE else]
    /\ last' = [NoStep EXCEPT
                   !.op = op, !.s = s, !.assembled = r.assembled,
                   !.executed = r.executed, !.readback = r.readback,
                   !.rb_raised = r.rb_raised, !.freed = r.freed,
                   !.returned = r.returned, !.error = r.error,
                   !.message = IF r.executed /\ host.k = "fail"
                               THEN host.message ELSE <<>>,
                   !.canOpen = canOpen]
    /\ UNCHANGED <<arg, res, clock>>

\* one __call__ of session s with the assembled code, for every outcome of
\* open() and of the host
RunWith(s, op, then, else, code, tails) ==
    \E canOpen \in OpenOutcomes(obj[s], code) :
        \E host \in HostOutcomes(obj[s], code, canOpen, tails) :
            Ran(s, op, then, else, canOpen, host,
                __call__(obj[s], code, store, files, canOpen, host))

Run(s, op, then, else, tails) ==
    /\ RoomToWrite(obj[s], files)
    /\ RunWith(s, op, then, else, getExecDMScriptCode(obj[s], ScriptFiles), tails)

\* caller: session() or session.exec() (op "call"), or the with statement
\* calling __enter__ (op "enter"), which is "self.exec(); return self" with
\* exec being "return self()".  tails are the texts the host's failures
\* carry after "Error in line N"
exec(s, tails) ==
    \E op \in {"call", "enter"} :
        /\ pc[s] \in (IF op = "call" THEN {"created", "inScope"} ELSE {"created"})
        /\ Run(s, op, IF op = "call" THEN pc[s] ELSE "inScope",
               IF op = "call" THEN pc[s] ELSE "enterRaised", tails)

\* freeAllSyncedVars of session s as the step op
Release(s, op, then) ==
    /\ store' = freeAllSyncedVars(obj[s], store)
    /\ released' = [released EXCEPT ![s] = TRUE]
    /\ pc' = [pc EXCEPT ![s] = then]
    /\ last' = [NoStep EXCEPT !.op = op, !.s = s, !.freed = TRUE,
                              !.had_entry = PersistentTagToken(obj[s]) \in DOMAIN store]
    /\ UNCHANGED <<arg, res, clock, obj, files>>

\* the with block is left, normally or by an exception: __exit__
Exit(s) ==
    /\ pc[s] = "inScope"
    /\ Release(s, "exit", "exited")

\* caller: session.freeAllSyncedVars()
FreeAllSyncedVars(s) ==
    /\ pc[s] \in {"created", "inScope", "exited"}
    /\ Release(s, "free", pc[s])

\* the interpreter collects an object nothing refers to: __del__
Del(s) ==
    /\ pc[s] \in {"created", "exited", "enterRaised"}
    /\ Release(s, "del", "collected")

Next ==
    \E s \in {1} :
        \/ New(s, Params)
        \/ exec(s, FailureTails)
        \/ Exit(s)
        \/ FreeAllSyncedVars(s)
        \/ Del(s)

Spec == Init /\ [][Next]_vars

\* the with statement calls __exit__ when its block is left; nothing in the
\* program or the interpreter schedules __del__
FairSpec == Spec /\ WF_vars(\E s \in Sessions : Exit(s))

(***************************************************************************)
(* SpecPair: two sessions with the same parameters against one host.       *)
(***************************************************************************)
PairParams ==
    {[scripts |-> <<InlineScript>>,
      readvars |-> PyDict(<< <<"c">> >>, <<PyAlias("Integer")>>),
      setvars |-> PyNone, separate_thread |-> PyNone, debug |-> FALSE,
      debug_file |-> PyNone]}

NextPair ==
    \E s \in Sessions :
        \/ New(s, PairParams)
        \/ exec(s, {})
        \/ Exit(s)
        \/ FreeAllSyncedVars(s)
        \/ Del(s)

SpecPair == Init /\ [][NextPair]_vars

(***************************************************************************)
(* Properties of the session lifecycle.                                    *)
(***************************************************************************)
Runs == {"call", "enter"}
Releases == {"exit", "free", "del"}

\* the session object exists
Live(s) == pc[s] \notin {"absent", "collected"}

\* the message has the form "Error in line N\n<message>"
ReportsLine(message) ==
    IF Len(message) < 2 THEN FALSE
    ELSE IF Len(message[1]) < 2 THEN FALSE
    ELSE /\ message[1][1] = "Error in line "
         /\ \A i \in 2..Len(message[1]) : IsDigit(message[1][i])

ReportedLine(message) == DigitsValue(Tail(message[1]))

SpansHolding(sources, n) ==
    {j \in 1..Len(sources) : sources[j].start <= n /\ n <= sources[j].end}

\* the last step was a run of a session whose host execution failed
HostFailed == last.op \in Runs /\ last.executed /\ last.message # <<>>

\* C1: once release (freeAllSyncedVars, called by __exit__, __del__ or
\* directly) has executed for a session, whatever its runs ended with, the
\* persistent tags hold no entry under the session's persistent_tag
C1_ReleaseRemovesEntry ==
    last.op \in Releases => PersistentTagToken(obj[last.s]) \notin DOMAIN store

\* C1 witness: a release that found the session's entry in the persistent
\* tags, which only a run that raised leaves there
C1_Witness ==
    /\ last.op \in Releases
    /\ last.had_entry
    /\ PersistentTagToken(obj[last.s]) \notin DOMAIN store

\* C2: whenever a session is used in a with statement, release is eventually
\* executed by the scope exit itself or by the collection of the object,
\* also when the run inside __enter__ raised
C2_ScopeExitReleases ==
    \A s \in Sessions :
        (pc[s] \in {"inScope", "enterRaised"})
            ~> (last.s = s /\ last.op \in {"exit", "del"})

\* the text file.write(text) leaves in the debug target of the session
WrittenTo(self, fl, text) ==
    IF self.debug_file.k = "file"
    THEN /\ fl[self.debug_file.name].k = "text"
         /\ Len(fl[self.debug_file.name].v) >= Len(text)
         /\ SubSeq(fl[self.debug_file.name].v,
                   Len(fl[self.debug_file.name].v) - Len(text) + 2,
                   Len(fl[self.debug_file.name].v)) = Tail(text)
    ELSE fl[IF self.debug_file.k = "str" THEN self.debug_file.s ELSE DefaultPath]
             = FileWith(text)

\* C3: in debug mode a run whose script was assembled never executes the
\* script and never reads back, whatever the debug target and whether or not
\* it can be opened; it writes the assembled text to the target and returns
\* True with synchronized_vars empty
C3_DebugNeverExecutes ==
    (last.op \in Runs /\ last.assembled /\ obj[last.s].debug) =>
        /\ ~last.executed
        /\ ~last.readback
        /\ last.returned = "True"
        /\ Len(obj[last.s].synchronized_vars.keys) = 0
        /\ WrittenTo(obj[last.s], files,
                     getExecDMScriptCode(obj[last.s], ScriptFiles).text)

\* C4: when the host fails with "Error in line N\n<message>" and N lies in a
\* recorded span, the run raises DMScriptError with msg <message>, the
\* span's origin name, the line N - start + 1 in the origin and the line N
C4_LineErrorIsEnriched ==
    IF HostFailed /\ ReportsLine(last.message)
    THEN \A j \in SpansHolding(obj[last.s]._script_sources,
                               ReportedLine(last.message)) :
            /\ last.returned = "raise"
            /\ last.error =
                 DMScriptError(Tail(last.message),
                               obj[last.s]._script_sources[j].origin_name,
                               ReportedLine(last.message)
                                   - obj[last.s]._script_sources[j].start + 1,
                               ReportedLine(last.message))
    ELSE TRUE

\* C5: when the host fails and the message does not have the form "Error in
\* line N\n..." or N lies in no recorded span, the run raises the host's
\* RuntimeError unchanged; after a host failure a run never returns True and
\* never reads back
C5_OtherFailuresReRaised ==
    IF HostFailed
    THEN /\ last.returned # "True"
         /\ ~last.readback
         /\ (IF ReportsLine(last.message)
             THEN SpansHolding(obj[last.s]._script_sources,
                               ReportedLine(last.message)) = {}
             ELSE TRUE)
                => /\ last.returned = "raise"
                   /\ last.error = [type |-> "RuntimeError",
                                    message |-> last.message]
    ELSE TRUE

\* C6: the read-back never raises: a variable that cannot be read is left
\* out of synchronized_vars, which holds declared variables only
C6_ReadBackNeverRaises ==
    (last.op \in Runs /\ last.readback) =>
        /\ ~last.rb_raised
        /\ last.returned = "True"
        /\ \A i \in 1..Len(obj[last.s].synchronized_vars.keys) :
              \E j \in 1..Len(obj[last.s].readvars.keys) :
                  obj[last.s].readvars.keys[j] = obj[last.s].synchronized_vars.keys[i]

\* what a step leaves in synchronized_vars of the session it is a step of
StepKeepsResultWhole ==
    /\ last'.op = "new" => Len(obj'[last'.s].synchronized_vars.keys) = 0
    /\ last'.op \in Runs =>
          \/ obj'[last'.s].synchronized_vars = obj[last'.s].synchronized_vars
          \/ Len(obj'[last'.s].synchronized_vars.keys) = 0
          \/ last'.readback /\ ~last'.rb_raised
    /\ last'.op \in Releases =>
          obj'[last'.s].synchronized_vars = obj[last'.s].synchronized_vars

\* C7: synchronized_vars is empty when the session is created, and every run
\* leaves it as it was, empty, or holding the result of a read-back that
\* ended without raising: the caller never sees a partly filled result
C7_ResultSetIsAtomic == [][StepKeepsResultWhole]_vars

\* C8: two sessions that exist at the same time have different
\* persistent_tag values, whenever they were created
C8_LiveSessionsHaveDistinctTags ==
    \A s, t \in Sessions :
        (s # t /\ Live(s) /\ Live(t)) =>
            PersistentTagToken(obj[s]) # PersistentTagToken(obj[t])

\* what a release leaves in the persistent tags
ReleaseIsIdempotent ==
    last'.op \in Releases =>
        /\ freeAllSyncedVars(obj'[last'.s], store') = store'
        /\ ~last'.had_entry => store' = store
        /\ (last.op \in Releases /\ last.s = last'.s) => store' = store

\* C14: freeAllSyncedVars can be called any number of times, before a run,
\* after the read-back deleted the tag and after __exit__: a further call
\* leaves the persistent tags as one call left them
C14_ReleaseIsIdempotent == [][ReleaseIsIdempotent]_vars

\* C14 witness: freeAllSyncedVars called after __exit__ released the session
C14_Witness ==
    /\ last.op = "free"
    /\ pc[last.s] = "exited"
    /\ ~last.had_entry
    /\ PersistentTagToken(obj[last.s]) \notin DOMAIN store

\* a run that executed the script and returned leaves no tag of its session
RunLeavesNoTag ==
    (last'.op \in Runs /\ last'.executed /\ last'.returned = "True") =>
        PersistentTagToken(obj'[last'.s]) \notin DOMAIN store'

\* C27: when a run that executed the script has returned, the tag of the
\* session is no longer in the persistent tags: the read-back deletes it as
\* its last step, and the results are in synchronized_vars only
C27_ReturnedRunLeavesNoTag == [][RunLeavesNoTag]_vars

\* C27 witness: a run that returned with values read back, its tag gone
C27_Witness ==
    /\ last.op \in Runs /\ last.executed /\ last.readback /\ last.returned = "True"
    /\ last.freed
    /\ Len(obj[last.s].synchronized_vars.keys) > 0
    /\ PersistentTagToken(obj[last.s]) \notin DOMAIN store

\* a run of a session that is not in debug mode leaves every file as it is
RunKeepsFiles ==
    (last'.op \in Runs /\ ~obj'[last'.s].debug) => files' = files

\* C28: with debug False a run does not create, open, truncate or write the
\* file named by debug_file or the default file tmp-execdmscript.s
C28_NoDebugNoFile == [][RunKeepsFiles]_vars

\* the same for the runs in which open() fails or debug_file is an object
C28_HoldsWithoutOpen ==
    [][(last'.canOpen /\ obj'[last'.s].debug_file.k # "file") \/ RunKeepsFiles]_vars

\* with debug False every run that can open the target leaves it empty
C28_TargetIsTruncated ==
    [][(last'.op \in Runs /\ last'.assembled /\ ~obj'[last'.s].debug /\ last'.canOpen
          /\ obj'[last'.s].debug_file.k # "file") =>
           files'[IF obj'[last'.s].debug_file.k = "str" THEN obj'[last'.s].debug_file.s
                  ELSE DefaultPath] = FileWith(<< <<>> >>)]_vars

(***************************************************************************)
(* SpecAsm: getExecDMScriptCode applied to bounded session configurations. *)
(***************************************************************************)
LineSet == {<<>>, <<"x">>, <<debug_start_marker>>, <<debug_end_marker>>}

StrsOfLen(n) == [1..n -> LineSet]

\* the lists of inline fragments with at most n lines in total
RECURSIVE FragLists(_)
FragLists(n) ==
    {<<>>} \cup UNION {UNION {{<<[kind |-> "script", script |-> s]>> \o rest :
                                 rest \in FragLists(n - c)} : s \in StrsOfLen(c)} :
                       c \in 1..n}

FilePath == <<"f">>
FileText == << <<"x">>, <<>> >>

SampleSetvars == {PyNone,
                  PyDict(<< <<"a">>, <<"b">> >>,
                         <<PyList(<<PyInt(1), PyDict(<< <<"k">> >>, <<PyStr(<<"s">>)>>)>>),
                           PyStr(<<"t">>)>>)}

SampleReadvars == {PyNone, PyDict(<< <<"a">>, <<"c">> >>, <<PyType("list"), PyAlias("Integer")>>)}

SampleThreads == {PyNone, [k |-> "seq", items |-> <<[kind |-> "script", script |-> << <<"x">> >>]>>]}

\* the session configurations with at most n script lines
AsmInputs(n) ==
    {[self |-> [scripts |-> (IF fm = "none" THEN <<>>
                             ELSE <<[kind |-> "file", script |-> FilePath]>>) \o fl,
                setvars |-> sv, readvars |-> rv, separate_thread |-> st,
                _creation_time_id |-> 1],
      fs |-> [p \in {FilePath} |-> IF fm = "present" THEN FileWith(FileText) ELSE NoFile]] :
        fl \in FragLists(n), sv \in SampleSetvars, rv \in SampleReadvars,
        st \in SampleThreads, fm \in {"none", "missing", "present"}}

InitAsm == arg \in AsmInputs(MaxLines) /\ res = NoResult /\ LifecycleIdle

Assemble ==
    /\ res = NoResult
    /\ res' = getExecDMScriptCode(arg.self, arg.fs)
    /\ UNCHANGED <<arg, lifeVars>>

SpecAsm == InitAsm /\ [][Assemble]_vars

\* C10: after a call of getExecDMScriptCode that returns, the recorded spans
\* partition the lines of the assembled text: the first span starts at line 1,
\* every span has start <= end, every following span starts at the previous
\* span's end + 1, the last span ends at the last line of the text, and the
\* lines start..end of the text are the fragment as it was appended; for a
\* script fragment that is its text with the debug regions commented out.
SpansPartitionText(r) ==
    LET src == r.sources
        n == Len(src)
    IN  /\ n > 0
        /\ src[1].start = 1
        /\ \A i \in 1..n : src[i].start <= src[i].end
        /\ \A i \in 1..(n - 1) : src[i + 1].start = src[i].end + 1
        /\ src[n].end = Len(r.text)
        /\ \A i \in 1..n : SubSeq(r.text, src[i].start, src[i].end) = r.fragments[i]

ScriptSpansHoldScripts(self, fs, r) ==
    \A i \in 1..Len(self.scripts) :
        LET span == r.sources[2 + 3 * i]
            code == IF self.scripts[i].kind = "file" THEN fs[self.scripts[i].script].v
                    ELSE self.scripts[i].script
        IN  /\ span.origin_detail = [k |-> "script", v |-> self.scripts[i].script]
            /\ SubSeq(r.text, span.start, span.end) = CommentDebugLines(code)

C10_SpansPartitionText ==
    (res # NoResult /\ res.ok) =>
        /\ SpansPartitionText(res)
        /\ ScriptSpansHoldScripts(arg.self, arg.fs, res)

\* C10 witness: an assembly returned for two script fragments, one of them
\* empty, one with a trailing newline and a debug start marker
C10_Witness ==
    /\ res # NoResult /\ res.ok
    /\ Len(arg.self.scripts) = 2
    /\ \A i \in 1..2 : arg.self.scripts[i].kind = "script"
    /\ arg.self.scripts[1].script = << <<>> >>
    /\ arg.self.scripts[2].script = << <<debug_start_marker>>, <<>> >>


\* the lines of the assembled text that span j of r covers
SpanText(r, j) == SubSeq(r.text, r.sources[j].start, r.sources[j].end)

\* open() succeeds for every file among the scripts
ScriptFilesOpen(self, fs) ==
    \A i \in 1..Len(self.scripts) :
        self.scripts[i].kind = "file" => fs[self.scripts[i].script].k = "text"

\* the spans of the separate_thread body i of r are the start code, the
\* comment, the body and the end code, scripts being the number of scripts
ThreadIsWrapped(self, r, scripts, i) ==
    /\ Len(r.sources) >= 2 + 3 * scripts + 4 * i
    /\ SpanText(r, 2 + 3 * scripts + 4 * i - 3) = getSeparateThreadStartCode(self, i - 1)
    /\ SpanText(r, 2 + 3 * scripts + 4 * i - 1) = self.separate_thread.items[i].script
    /\ SpanText(r, 2 + 3 * scripts + 4 * i) = getSeparateThreadEndCode(self, i - 1)

\* C12: with separate_thread a non-empty sequence of fragments the assembly
\* succeeds, and for each body in order the text holds the thread-start code,
\* the body and the thread-end code, each recorded as a span
C12_ThreadBodiesAreWrapped ==
    (/\ res # NoResult
     /\ arg.self.separate_thread.k = "seq"
     /\ ScriptFilesOpen(arg.self, arg.fs)) =>
        /\ res.ok
        /\ \A i \in 1..Len(arg.self.separate_thread.items) :
              ThreadIsWrapped(arg.self, res, Len(arg.self.scripts), i)


\* the origin name recorded for fragment i of frags, given as the scripts
\* (kind "scripts") or as the separate_thread bodies
SourceName(frags, i, inline) ==
    IF frags[i].kind = "file" THEN frags[i].script
    ELSE <<inline, ToString(i - 1), ">">>

\* the origin names in the order of emission
EmissionOrder(self) ==
    << <<"<comments>">>, <<"<setvars>">> >>
    \o Flatten([i \in 1..Len(self.scripts) |->
                   << <<"<__file__>">>, <<"<comments>">>,
                      SourceName(self.scripts, i, "<inline script in parameter ") >>])
    \o (IF self.separate_thread.k # "seq" THEN <<>>
        ELSE Flatten([i \in 1..Len(self.separate_thread.items) |->
                         << <<"<prepare separate thread>">>, <<"<comments>">>,
                            SourceName(self.separate_thread.items, i,
                                       "<separate_thread parameter "),
                            <<"<prepare separate thread>">> >>]))
    \o << <<"<execdmscript lib functions>">>, <<"<readvars>">> >>

\* C13: the fragments of an assembled script are, in this order, the header
\* comment, the setvars code, for each script in the caller's order its
\* __file__ assignment, its comment and its text, the wrapped separate_thread
\* bodies, the lib functions and, as the last fragment, the synchronizing
\* code; the lib functions are part of every assembly, also without readvars
C13_EmissionOrder ==
    (res # NoResult /\ res.ok) =>
        /\ [j \in 1..Len(res.sources) |-> res.sources[j].origin_name]
               = EmissionOrder(arg.self)
        /\ SpanText(res, 1) = Flatten(HeaderComment.v)
        /\ SpanText(res, 2) = getSetVarsDMCode(arg.self).v
        /\ SpanText(res, Len(res.sources) - 1) = _getExecdmscriptLibFunctions
        /\ SpanText(res, Len(res.sources)) = getSyncDMCode(arg.self).v
        /\ ScriptSpansHoldScripts(arg.self, arg.fs, res)

\* C13 witness: an assembly of a file and an inline script with setvars and
\* without readvars
C13_Witness ==
    /\ res # NoResult /\ res.ok
    /\ Len(arg.self.scripts) = 2
    /\ arg.self.scripts[1].kind = "file"
    /\ arg.self.scripts[2].kind = "script"
    /\ arg.self.setvars # PyNone
    /\ arg.self.readvars = PyNone
    /\ res.sources[Len(res.sources) - 1].origin_name = <<"<execdmscript lib functions>">>


\* the line with the end marker that closes the region opened at line j: the
\* first one from j on, the last line of the fragment if there is none
RegionEnd(lines, j) ==
    LET ends == {k \in j..Len(lines) : Contains(lines[k], debug_end_marker)}
    IN  IF ends = {} THEN Len(lines) ELSE CHOOSE k \in ends : \A x \in ends : k <= x

\* the lines of a fragment that are in a debug region
InDebugRegion(lines) ==
    {i \in 1..Len(lines) :
        \E j \in 1..i : /\ Contains(lines[j], debug_start_marker)
                        /\ i <= RegionEnd(lines, j)}

\* the text the i-th script was given with
ScriptCode(self, fs, i) ==
    IF self.scripts[i].kind = "file" THEN fs[self.scripts[i].script].v
    ELSE self.scripts[i].script

C25_WitnessClosed ==
    /\ res # NoResult /\ res.ok
    /\ Len(arg.self.scripts) = 1
    /\ arg.self.scripts[1].script
           = << <<debug_start_marker>>, <<debug_end_marker>>, <<"x">> >>
    /\ SubSeq(res.text, res.sources[5].start, res.sources[5].end)
           = << <<"// ", debug_start_marker>>, <<"// ", debug_end_marker>>, <<"x">> >>

(***************************************************************************)
(* Round trip of one container value: set as the variable x by setvars,    *)
(* linearized by the synchronizing code, reconstructed by the read-back.   *)
(***************************************************************************)
MaxDepth == 2
MaxWidth == 2

Leaves == {PyInt(1), PyFloat(2), PyBool(TRUE), PyStr(<<"a">>), PyNone}
KeySet == {<<"a">>, <<"a", "/", "b">>}

\* the lists and dicts of at most MaxWidth elements over the values vs
ContainersOver(vs) ==
    UNION {{PyList(items) : items \in [1..n -> vs]} : n \in 0..MaxWidth}
    \cup UNION {{PyDict(keys, vals) :
                    keys \in {ks \in [1..n -> KeySet] :
                                 \A a, b \in 1..n : a # b => ks[a] # ks[b]},
                    vals \in [1..n -> vs]} : n \in 0..MaxWidth}

RECURSIVE ValuesOfDepth(_)
ValuesOfDepth(d) ==
    IF d = 0 THEN Leaves
    ELSE ValuesOfDepth(d - 1) \cup ContainersOver(ValuesOfDepth(d - 1))

\* the containers of depth at most n
RoundTripInputs(n) == ContainersOver(ValuesOfDepth(n - 1))

VarX == <<"x">>

\* setvars = {"x": value}, readvars = {"x": type(value)}, no script: the
\* result of the read-back after the host ran the assembled text
RoundTrip(value) ==
    LET readvars == PyDict(<<VarX>>, <<TypeOf(value)>>)
        group == HostSync(readvars, <<BuildTags(value)>>)
    IN  LoadLoop(group, readvars, 1, PyDict(<<>>, <<>>))

InitRT == arg \in RoundTripInputs(MaxDepth) /\ res = NoResult /\ LifecycleIdle

SetAndReadBack ==
    /\ res = NoResult
    /\ res' = RoundTrip(arg)
    /\ UNCHANGED <<arg, lifeVars>>

SpecRT == InitRT /\ [][SetAndReadBack]_vars

\* Python's == on two values: numbers by value, containers element-wise
RECURSIVE PyEq(_, _)
PyEq(a, b) ==
    LET numeric(v) == v.k \in {"int", "float", "bool"}
    IN  CASE numeric(a) /\ numeric(b) -> NumberOf(a) = NumberOf(b)
          [] a.k = "str" /\ b.k = "str" -> a.s = b.s
          [] a.k = "none" /\ b.k = "none" -> TRUE
          [] a.k = "list" /\ b.k = "list" ->
               /\ Len(a.items) = Len(b.items)
               /\ \A i \in 1..Len(a.items) : PyEq(a.items[i], b.items[i])
          [] a.k = "dict" /\ b.k = "dict" ->
               /\ {a.keys[i] : i \in 1..Len(a.keys)} = {b.keys[i] : i \in 1..Len(b.keys)}
               /\ \A i \in 1..Len(a.keys) : \A j \in 1..Len(b.keys) :
                      a.keys[i] = b.keys[j] => PyEq(a.vals[i], b.vals[j])
          [] OTHER -> FALSE

\* the value with every None leaf replaced by 0
RECURSIVE NoneAsZero(_)
NoneAsZero(v) ==
    CASE v.k = "none" -> PyInt(0)
      [] v.k = "list" -> PyList([i \in 1..Len(v.items) |-> NoneAsZero(v.items[i])])
      [] v.k = "dict" -> PyDict(v.keys, [i \in 1..Len(v.vals) |-> NoneAsZero(v.vals[i])])
      [] OTHER -> v

\* C9: for every nested value of lists and dicts over int, float, bool, str
\* and None leaves, setting it and reading the same variable back yields a
\* structure equal to the input, None leaves reproduced as 0.
C9_RoundTripReproducesInput ==
    (res # NoResult /\ "synchronized_vars" \in DOMAIN res) =>
        /\ ~res.raised
        /\ res.synchronized_vars.keys = <<VarX>>
        /\ PyEq(res.synchronized_vars.vals[1], NoneAsZero(arg))

\* C29: a variable read back as a dict or a list that is placed in
\* synchronized_vars holds a dict or a list and never None; an empty TagGroup
\* or TagList of the script is synchronized as {} or []
C29_ContainerIsNeverNone ==
    (res # NoResult /\ "synchronized_vars" \in DOMAIN res) =>
        \A j \in 1..Len(res.synchronized_vars.keys) :
            res.synchronized_vars.vals[j].k = arg.k

\* the same for the containers that are not empty
C29_HoldsForFilledContainers ==
    (res # NoResult /\ "synchronized_vars" \in DOMAIN res
         /\ arg \notin {PyList(<<>>), PyDict(<<>>, <<>>)}) =>
        \A j \in 1..Len(res.synchronized_vars.keys) :
            res.synchronized_vars.vals[j].k = arg.k

\* [] and {} are placed in synchronized_vars as None
C29_EmptyIsNone ==
    (res # NoResult /\ "synchronized_vars" \in DOMAIN res
         /\ arg \in {PyList(<<>>), PyDict(<<>>, <<>>)}) =>
        res.synchronized_vars = PyDict(<<VarX>>, <<PyNone>>)

(***************************************************************************)
(* SpecSet: a session created with setvars and readvars, and one run of it *)
(* whose script leaves the variables set by setvars as they are.           *)
(***************************************************************************)
NameA == <<"a">>
NameB == <<"b">>

SetValues == {PyInt(10), PyStr(<<"s">>), PyBool(TRUE), PyFloat(2),
              PyList(<<PyInt(1)>>), PyNone}
ReadTypes == {PyType("int"), PyAlias("Integer"), PyType("str"), PyType("list")}

\* None and the dicts with keys among a and b and values among vs
DictsOver(vs) ==
    {PyNone} \cup
    UNION {{PyDict(keys, vals) : vals \in [1..Len(keys) -> vs]} :
              keys \in {<<>>, <<NameA>>, <<NameB>>, <<NameA, NameB>>, <<NameB, NameA>>}}

HasKey(d, key) == d.k = "dict" /\ \E x \in 1..Len(d.keys) : d.keys[x] = key

\* d[key] for a key of d
ValueAt(d, key) == d.vals[CHOOSE x \in 1..Len(d.keys) : d.keys[x] = key]

\* the value the script's variable holds when the synchronizing code runs:
\* what setvars declared it with or, for a variable of the script's own,
\* a value of the type it is read as
HeldValue(setvars, key, var_type) ==
    IF HasKey(setvars, key)
    THEN IF ValueAt(setvars, key).k \in {"dict", "list", "tuple"}
         THEN BuildTags(ValueAt(setvars, key))
         ELSE ValueAt(setvars, key)
    ELSE CASE get_python_type(var_type).v = "int" -> PyInt(7)
           [] get_python_type(var_type).v = "str" -> PyStr(<<"t">>)
           [] OTHER -> BuildTags(PyList(<<PyInt(1)>>))

\* every variable set by setvars is read back as the type of its value
ReadAsSet(self, setvars) ==
    \A j \in 1..Len(self.readvars.keys) :
        HasKey(setvars, self.readvars.keys[j]) =>
            get_python_type(self.readvars.vals[j]).v
                = get_python_type(TypeOf(ValueAt(setvars, self.readvars.keys[j]))).v

\* the run of self with the assembled code
SetRunWith(self, setvars, code) ==
    IF code.ok /\ self.readvars.k = "dict" /\ ReadAsSet(self, setvars)
    THEN [self |-> self, ran |-> TRUE,
          r |-> __call__(self, code, EmptyGroup, [t \in Targets |-> NoFile], TRUE,
                         [k |-> "ok",
                          var_values |->
                              [j \in 1..Len(self.readvars.keys) |->
                                  HeldValue(setvars, self.readvars.keys[j],
                                            self.readvars.vals[j])]])]
    ELSE [self |-> self, ran |-> FALSE, r |-> NoResult]

SetRunOf(self, setvars) ==
    SetRunWith(self, setvars, getExecDMScriptCode(self, ScriptFiles))

InitSet ==
    /\ arg \in [readvars : DictsOver(ReadTypes), setvars : DictsOver(SetValues)]
    /\ res = NoResult
    /\ LifecycleIdle

\* caller: session = DMScriptWrapper(readvars=..., setvars=...); session()
SetAndRun ==
    /\ res = NoResult
    /\ res' = SetRunOf(__init__(<<>>, arg.readvars, arg.setvars, PyNone, FALSE,
                                PyNone, 0), arg.setvars)
    /\ UNCHANGED <<arg, lifeVars>>

SpecSet == InitSet /\ [][SetAndRun]_vars

\* C11: every setvars name that is no key of the caller's readvars is in
\* readvars with the type of its value, a name in both keeps the caller's
\* type, and after a run that returned the int value of a name that only
\* setvars gave is in synchronized_vars (setvars = {"a": 10}: a -> 10)
C11_SetvarsAreReadBack ==
    (res # NoResult /\ arg.setvars.k = "dict") =>
        /\ \A i \in 1..Len(arg.setvars.keys) :
              ~HasKey(arg.readvars, arg.setvars.keys[i]) =>
                  /\ HasKey(res.self.readvars, arg.setvars.keys[i])
                  /\ ValueAt(res.self.readvars, arg.setvars.keys[i])
                         = TypeOf(arg.setvars.vals[i])
        /\ arg.readvars.k = "dict" =>
              \A j \in 1..Len(arg.readvars.keys) :
                  /\ HasKey(res.self.readvars, arg.readvars.keys[j])
                  /\ ValueAt(res.self.readvars, arg.readvars.keys[j])
                         = arg.readvars.vals[j]
        /\ (IF res.ran THEN res.r.returned = "True" ELSE FALSE) =>
              \A i \in 1..Len(arg.setvars.keys) :
                  (arg.setvars.vals[i].k = "int"
                       /\ ~HasKey(arg.readvars, arg.setvars.keys[i])) =>
                      /\ HasKey(res.r.self.synchronized_vars, arg.setvars.keys[i])
                      /\ ValueAt(res.r.self.synchronized_vars, arg.setvars.keys[i])
                             = arg.setvars.vals[i]

\* C11 witness: setvars = {"a": 10} without readvars, run, a read back as 10
C11_Witness ==
    /\ arg.readvars = PyNone
    /\ arg.setvars = PyDict(<<NameA>>, <<PyInt(10)>>)
    /\ res # NoResult
    /\ res.self.readvars = PyDict(<<NameA>>, <<PyType("int")>>)
    /\ (IF res.ran THEN res.r.self.synchronized_vars = PyDict(<<NameA>>, <<PyInt(10)>>)
        ELSE FALSE)

\* C11 witness of the other case: a name in setvars and in readvars
C11_WitnessBoth ==
    /\ arg.readvars = PyDict(<<NameA>>, <<PyAlias("Integer")>>)
    /\ arg.setvars = PyDict(<<NameA>>, <<PyInt(10)>>)
    /\ res # NoResult
    /\ res.self.readvars = arg.readvars

(***************************************************************************)
(* SpecLookup: a session that is created, run, released and collected, and *)
(* asked for its results by name at every point of that.                   *)
(***************************************************************************)
LookupParams == {p \in Params : p.setvars = PyNone /\ p.separate_thread = PyNone}

\* the names asked for: the two of readvars and one no session reads
LookupNames == {<<"c">>, <<"a">>, <<"z">>}

\* caller: session.getSyncedVar(name) or session[name]
GetSyncedVar(s) ==
    /\ pc[s] \in {"created", "inScope", "exited", "enterRaised"}
    /\ \E name \in LookupNames :
          res' = [k |-> "lookup", s |-> s, name |-> name, at |-> pc[s],
                  after |-> last.op, returned |-> last.returned,
                  released |-> released[s],
                  held |-> obj[s].synchronized_vars,
                  r |-> getSyncedVar(obj[s], name)]
    /\ UNCHANGED <<arg, lifeVars>>

NextLookup ==
    \E s \in {1} :
        \/ New(s, LookupParams)
        \/ exec(s, {})
        \/ Exit(s)
        \/ FreeAllSyncedVars(s)
        \/ Del(s)
        \/ GetSyncedVar(s)

SpecLookup == Init /\ [][NextLookup]_vars

\* C15: a lookup by name never raises, whatever the session has been through;
\* it returns the value synchronized_vars holds under the name, and None for
\* a name synchronized_vars does not hold
C15_LookupNeverRaises ==
    res.k = "lookup" =>
        /\ res.r.ok
        /\ IF HasKey(res.held, res.name)
           THEN res.r.v = ValueAt(res.held, res.name)
           ELSE res.r.v = PyNone

\* C15 witness: the value read back as c, looked up after the release
C15_Witness ==
    /\ res.k = "lookup"
    /\ res.name = <<"c">>
    /\ res.released
    /\ res.r = [ok |-> TRUE, v |-> PyInt(7)]

\* C15 witness of the other cases: a name that is not held, before any run
\* and after a run that raised
C15_WitnessBeforeRun ==
    /\ res.k = "lookup" /\ res.after = "new" /\ res.r = [ok |-> TRUE, v |-> PyNone]

C15_WitnessAfterFailure ==
    /\ res.k = "lookup" /\ res.after \in Runs /\ res.returned # "True"
    /\ res.name = <<"z">> /\ res.r = [ok |-> TRUE, v |-> PyNone]

(***************************************************************************)
(* SpecTG: convert_to_taggroup applied to nested dicts and lists under     *)
(* every kind of replace_invalid_chars.                                    *)
(***************************************************************************)
TagKeys == {<<"a">>, <<"b", ":">>, <<"[", "c", "]">>}
TagLeaves == {PyInt(1), PyStr(<<"s">>), PyNone}

\* the lists and dicts of at most w elements over the values vs
TagContainers(vs, w) ==
    UNION {{PyList(items) : items \in [1..n -> vs]} : n \in 0..w}
    \cup UNION {{PyDict(keys, vals) :
                    keys \in {ks \in [1..n -> TagKeys] :
                                 \A a, b \in 1..n : a # b => ks[a] # ks[b]},
                    vals \in [1..n -> vs]} : n \in 0..w}

\* the containers of depth at most d whose width shrinks by one per level
RECURSIVE TagInputs(_, _)
TagInputs(d, w) ==
    IF d <= 1 \/ w <= 1 THEN TagContainers(TagLeaves, w)
    ELSE TagContainers(TagLeaves \cup TagInputs(d - 1, w - 1), w)

ReplacePolicies ==
    {PyBool(FALSE), PyBool(TRUE), PyStr(<<"_">>), PyStr(<<"[">>),
     PyDict(<< <<":">> >>, <<PyStr(<<"-">>)>>),
     PyDict(<< <<":">>, <<"[">>, <<"]">> >>,
            <<PyStr(<<"-">>), PyStr(<<"(">>), PyStr(<<")">>)>>),
     [k |-> "callable", name |-> "drop"], [k |-> "callable", name |-> "keep"]}

InitTG ==
    /\ arg \in [tags : TagInputs(MaxDepth, MaxWidth),
                replace_invalid_chars : ReplacePolicies]
    /\ res = NoResult
    /\ LifecycleIdle

\* caller: convert_to_taggroup(tags, replace_invalid_chars)
ConvertToTaggroup ==
    /\ res = NoResult
    /\ res' = convert_to_taggroup(arg.tags, arg.replace_invalid_chars, <<>>)
    /\ UNCHANGED <<arg, lifeVars>>

SpecTG == InitTG /\ [][ConvertToTaggroup]_vars

HasInvalidChar(key) ==
    \E i \in 1..Len(invalid_taggroup_key_characters) :
        Contains(key, invalid_taggroup_key_characters[i])

\* a dict key with an invalid character, at any depth of value
RECURSIVE HasInvalidKey(_)
HasInvalidKey(value) ==
    CASE value.k = "dict" ->
           \/ \E i \in 1..Len(value.keys) : HasInvalidChar(value.keys[i])
           \/ \E i \in 1..Len(value.vals) : HasInvalidKey(value.vals[i])
      [] value.k \in {"list", "tuple"} ->
           \E i \in 1..Len(value.items) : HasInvalidKey(value.items[i])
      [] OTHER -> FALSE

\* a None leaf at any depth of value
RECURSIVE HasNoneLeaf(_)
HasNoneLeaf(value) ==
    CASE value.k = "dict" -> \E i \in 1..Len(value.vals) : HasNoneLeaf(value.vals[i])
      [] value.k \in {"list", "tuple"} ->
           \E i \in 1..Len(value.items) : HasNoneLeaf(value.items[i])
      [] OTHER -> value.k = "none"

\* key with ":", "[" and "]" replaced by "_"
Underscored(key) ==
    [i \in 1..Len(key) |-> IF HasInvalidChar(<<key[i]>>) THEN "_" ELSE key[i]]

\* the labels of group are the keys of value with the invalid characters
\* replaced by "_", at every depth
RECURSIVE LabelsUnderscored(_, _)
LabelsUnderscored(value, group) ==
    CASE value.k = "dict" ->
           /\ {group.tags[x].label : x \in 1..Len(group.tags)}
                  = {Underscored(value.keys[i]) : i \in 1..Len(value.keys)}
           /\ \A i \in 1..Len(value.keys) :
                  (value.vals[i].k \in {"dict", "list", "tuple"}
                       /\ \A j \in (i + 1)..Len(value.keys) :
                              Underscored(value.keys[j]) # Underscored(value.keys[i])) =>
                      \E x \in 1..Len(group.tags) :
                          /\ group.tags[x].label = Underscored(value.keys[i])
                          /\ group.tags[x].type = 0
                          /\ LabelsUnderscored(value.vals[i], group.tags[x].val)
      [] value.k \in {"list", "tuple"} ->
           /\ Len(group.tags) = Len(value.items)
           /\ \A i \in 1..Len(value.items) :
                  value.items[i].k \in {"dict", "list", "tuple"} =>
                      /\ group.tags[i].type = 0
                      /\ LabelsUnderscored(value.items[i], group.tags[i].val)
      [] OTHER -> TRUE

RejectsOrUnderscores ==
    /\ (arg.replace_invalid_chars = PyBool(FALSE) /\ HasInvalidKey(arg.tags)) =>
           res = [ok |-> FALSE, err |-> "ValueError"]
    /\ (arg.replace_invalid_chars = PyStr(<<"_">>) /\ HasInvalidKey(arg.tags)) =>
           (IF res.ok THEN LabelsUnderscored(arg.tags, res.v) ELSE FALSE)

\* C16: with replace_invalid_chars False a key with ":", "[" or "]" at any
\* depth makes convert_to_taggroup raise ValueError; with "_" nothing is
\* raised and every key is stored with these characters replaced by "_"
C16_InvalidKeysRejectedOrReplaced ==
    res # NoResult => RejectsOrUnderscores

\* the same for the values without a None leaf
C16_HoldsWithoutNone ==
    (res # NoResult /\ ~HasNoneLeaf(arg.tags)) => RejectsOrUnderscores

\* an invalid key below the top level is rejected, and replaced under "_"
C16_ReachedNested ==
    /\ res # NoResult /\ ~HasNoneLeaf(arg.tags)
    /\ arg.tags.k = "list" /\ HasInvalidKey(arg.tags)
    /\ arg.replace_invalid_chars \in {PyBool(FALSE), PyStr(<<"_">>)}

(***************************************************************************)
(* SpecCode: getDMCodeForVariable applied to nested dicts and lists, as    *)
(* getSetVarsDMCode applies it to the values of setvars.                   *)
(***************************************************************************)
InitCode ==
    /\ arg \in [value : TagInputs(MaxDepth, MaxWidth), declare_type : BOOLEAN]
    /\ res = NoResult
    /\ LifecycleIdle

\* caller: DMScriptWrapper.getDMCodeForVariable("x", value, declare_type)
DeclareVariable ==
    /\ res = NoResult
    /\ res' = getDMCodeForVariable(VarX, arg.value, arg.declare_type)
    /\ UNCHANGED <<arg, lifeVars>>

SpecCode == InitCode /\ [][DeclareVariable]_vars

\* line holds the tokens toks in a row
HoldsTokens(line, toks) ==
    \E a \in 1..(Len(line) - Len(toks) + 1) : SubSeq(line, a, a + Len(toks) - 1) = toks

\* the dict keys with an invalid character, at any depth of value
RECURSIVE InvalidKeysOf(_)
InvalidKeysOf(value) ==
    CASE value.k = "dict" ->
           {value.keys[i] : i \in {j \in 1..Len(value.keys) : HasInvalidChar(value.keys[j])}}
           \cup UNION {InvalidKeysOf(value.vals[i]) : i \in 1..Len(value.vals)}
      [] value.k \in {"list", "tuple"} ->
           UNION {InvalidKeysOf(value.items[i]) : i \in 1..Len(value.items)}
      [] OTHER -> {}

\* C17: a dict offered for script synthesis with ":", "[" or "]" in a key, at
\* any depth, raises the invalid-key error, and no code that creates a tag
\* with such a key is returned
C17_InvalidKeyRaisesBeforeCode ==
    (res # NoResult /\ HasInvalidKey(arg.value)) =>
        /\ res = [ok |-> FALSE, err |-> "ValueError"]
        /\ res.ok =>
              \A key \in InvalidKeysOf(arg.value) : \A i \in 1..Len(res.v) :
                  ~HoldsTokens(res.v[i], Quoted(key))

\* code is returned for every dict and list, and a key with an invalid
\* character is the label of a tag it creates
C17_InvalidKeyIsEmitted ==
    res # NoResult =>
        /\ res.ok
        /\ \A key \in InvalidKeysOf(arg.value) : \E i \in 1..Len(res.v) :
               HoldsTokens(res.v[i], <<".TagGroupCreateNewLabeledTag(">> \o Quoted(key))

(***************************************************************************)
(* SpecEsc: a text escaped by the script-side                              *)
(* __exec_dmscript_escape_non_ascii and unescaped by unescapeNonAscii with *)
(* the default encoding.                                                   *)
(***************************************************************************)
MaxPieces == 3

\* what the texts are put together from: ASCII characters, characters
\* above 126 in and outside of Windows 1252, and the text "{{unc97}}"
TextPieces == {<<"a">>, <<"b">>, <<"{">>, <<"u181">>, <<"u252">>, <<"u8364">>,
               EscapeToken(97)}

TextsOf(n) == UNION {{Flatten(ps) : ps \in [1..m -> TextPieces]} : m \in 0..n}

InitEsc == arg \in TextsOf(MaxPieces) /\ res = NoResult /\ LifecycleIdle

\* script: escaped = __exec_dmscript_escape_non_ascii(text); caller:
\* unescapeNonAscii(escaped)
EscapeAndUnescape ==
    /\ res = NoResult
    /\ res' = [escaped |-> __exec_dmscript_escape_non_ascii(arg),
               r |-> unescapeNonAscii(__exec_dmscript_escape_non_ascii(arg))]
    /\ UNCHANGED <<arg, lifeVars>>

SpecEsc == InitEsc /\ [][EscapeAndUnescape]_vars

\* C18: escaping a text and unescaping the result with the default encoding
\* gives the text back and never raises, for texts that hold "{{unc97}}"
\* literally and for texts with characters above 126
C18_EscapeUnescapeIsIdentity ==
    res # NoResult => res.r = [ok |-> TRUE, v |-> arg]

\* the same for the texts without "{{unc" whose characters above 126 are
\* those of Windows 1252 with the code point of their byte
C18_HoldsForLatinText ==
    (res # NoResult /\ ~Contains(arg, "u8364")
         /\ \A i \in 1..Len(arg) : TokenLen(arg, i) = 0) =>
        res.r = [ok |-> TRUE, v |-> arg]

\* a literal "{{unc97}}" comes back as "a", and a character above 255 makes
\* unescapeNonAscii raise
C18_LiteralIsUnescaped ==
    (res # NoResult /\ arg = EscapeToken(97)) => res.r = [ok |-> TRUE, v |-> <<"a">>]

C18_EuroRaises ==
    (res # NoResult /\ arg = <<"u8364">>) => res.r = [ok |-> FALSE, err |-> "ValueError"]

(***************************************************************************)
(* SpecVar: escape_dm_variable applied to names.                           *)
(***************************************************************************)
MaxName == 3

NameChars == {"a", "B", "7", "_", " ", "-", "u252"}

\* the names of at most n characters, and "a b-c"
NamesOf(n) == UNION {[1..m -> NameChars] : m \in 0..n}
              \cup {<<"a", " ", "b", "-", "c">>}

InitVar == arg \in NamesOf(MaxName) /\ res = NoResult /\ LifecycleIdle

\* caller: escape_dm_variable(name)
EscapeVariable ==
    /\ res = NoResult
    /\ res' = escape_dm_variable(arg)
    /\ UNCHANGED <<arg, lifeVars>>

SpecVar == InitVar /\ [][EscapeVariable]_vars

\* the characters of [A-Za-z0-9_]
AsciiWordChars == {c \in WordChars : unc(c) <= 126}

\* C19: escape_dm_variable replaces every character outside [A-Za-z0-9_] by
\* "_" and keeps the others, so that the result has the length of the name
\* and holds only [A-Za-z0-9_]; it raises ValueError exactly for the names
\* with an empty result; "" fails and "a b-c" gives "a_b_c"
C19_OnlyAsciiWordCharsKept ==
    res # NoResult =>
        IF arg = <<>> THEN res = [ok |-> FALSE, err |-> "ValueError"]
        ELSE (IF res.ok
              THEN /\ Len(res.v) = Len(arg)
                   /\ \A i \in 1..Len(arg) :
                          res.v[i] = IF arg[i] \in AsciiWordChars THEN arg[i] ELSE "_"
              ELSE FALSE)

\* the same for the names of ASCII characters
C19_HoldsForAsciiNames ==
    (res # NoResult /\ \A i \in 1..Len(arg) : unc(arg[i]) <= 126) =>
        IF arg = <<>> THEN res = [ok |-> FALSE, err |-> "ValueError"]
        ELSE (IF res.ok
              THEN /\ Len(res.v) = Len(arg)
                   /\ \A i \in 1..Len(arg) :
                          res.v[i] = IF arg[i] \in AsciiWordChars THEN arg[i] ELSE "_"
              ELSE FALSE)

\* "a b-c" gives "a_b_c", and U+00FC is kept
C19_Examples ==
    /\ (res # NoResult /\ arg = <<"a", " ", "b", "-", "c">>) =>
           res = [ok |-> TRUE, v |-> <<"a", "_", "b", "_", "c">>]
    /\ (res # NoResult /\ arg = <<"u252">>) => res = [ok |-> TRUE, v |-> <<"u252">>]

(***************************************************************************)
(* SpecType: get_dm_type and get_python_type applied to the type           *)
(* expressions of the documentation in three spellings, to the Python      *)
(* types and to an unknown expression.                                     *)
(***************************************************************************)
\* "Supported types" of the documentation of exec_dmscript: the native type
\* and the spellings of its names
DocumentedTypes ==
    {[native |-> "int",
      names |-> {"int", "Int", "INT", "integer", "Integer", "INTEGER",
                 "short", "Short", "SHORT", "long", "Long", "LONG"}],
     [native |-> "float",
      names |-> {"float", "Float", "FLOAT", "double", "Double", "DOUBLE",
                 "realnumber", "Realnumber", "REALNUMBER", "number", "Number",
                 "NUMBER", "decimal", "Decimal", "DECIMAL"}],
     [native |-> "bool", names |-> {"boolean", "Boolean", "BOOLEAN"}],
     [native |-> "str",
      names |-> {"string", "String", "STRING", "text", "Text", "TEXT"}],
     [native |-> "dict",
      names |-> {"dict", "Dict", "DICT", "taggroup", "TagGroup", "TAGGROUP"}],
     [native |-> "list",
      names |-> {"list", "List", "LIST", "taglist", "TagList", "TAGLIST"}]}

UnknownNames == {"bogus", "Bogus", "BOGUS"}

TypeExpressions ==
    {PyAlias(a) : a \in UnknownNames \cup UNION {d.names : d \in DocumentedTypes}}
    \cup {PyType(d.native) : d \in DocumentedTypes}
    \cup {PyType("tuple"), PyType("NoneType")}

InitType ==
    /\ arg \in [datatype : TypeExpressions, for_taggroup : BOOLEAN]
    /\ res = NoResult
    /\ LifecycleIdle

\* caller: get_dm_type(datatype, for_taggroup) and get_python_type(datatype)
LookUpType ==
    /\ res = NoResult
    /\ res' = [dm |-> get_dm_type(arg.datatype, arg.for_taggroup),
               py |-> get_python_type(arg.datatype)]
    /\ UNCHANGED <<arg, lifeVars>>

SpecType == InitType /\ [][LookUpType]_vars

\* what the two lookups give for the native type
NativeDescriptor(native, for_taggroup) ==
    [dm |-> [ok |-> TRUE,
             v |-> CASE native \in {"dict", "list"} -> "TagGroup"
                     [] native = "str" -> IF for_taggroup THEN "String" ELSE "string"
                     [] ~for_taggroup -> "number"
                     [] native = "int" -> "Long"
                     [] native = "float" -> "Float"
                     [] OTHER -> "Boolean"],
     py |-> [ok |-> TRUE, v |-> native]]

NoDescriptor == [dm |-> [ok |-> FALSE, err |-> "LookupError"],
                 py |-> [ok |-> FALSE, err |-> "LookupError"]]

\* the lookups of the names in names give what the native types give, and
\* the unknown names raise LookupError
ResolvesNames(names) ==
    /\ \A d \in DocumentedTypes :
           ((arg.datatype.k = "alias" /\ (IF arg.datatype.k = "alias"
                                          THEN arg.datatype.a \in d.names \cap names
                                          ELSE FALSE))
                \/ arg.datatype = PyType(d.native)) =>
               res = NativeDescriptor(d.native, arg.for_taggroup)
    /\ (IF arg.datatype.k = "alias" THEN arg.datatype.a \in UnknownNames ELSE FALSE) =>
           res = NoDescriptor

AllNames == UNION {d.names : d \in DocumentedTypes}

\* C20: every documented name of a type, in any letter case, resolves to the
\* descriptor of its native type and to no other, and "bogus" raises
\* LookupError
C20_AliasesResolve ==
    res # NoResult => ResolvesNames(AllNames)

\* the same for the documented names other than short
C20_HoldsWithoutShort ==
    res # NoResult => ResolvesNames(AllNames \ {"short", "Short", "SHORT"})

\* short is in no type_def
C20_ShortIsUnknown ==
    (res # NoResult /\ arg.datatype = PyAlias("short")) => res = NoDescriptor

(***************************************************************************)
(* SpecDeclare: getDMCodeForVariable applied to scalars, to None and to    *)
(* containers with None leaves, under names that need escaping or not.     *)
(***************************************************************************)
ScalarValues ==
    {PyInt(0), PyInt(7), PyInt(-3), PyFloat(2), PyFloat(0), PyBool(TRUE),
     PyBool(FALSE), PyStr(<<"s">>), PyStr(<<>>), PyStr(<<"a", "\"", "b">>),
     PyStr(<<"\\">>), PyStr(<<"\n">>)}

NoneContainers ==
    {PyList(<<PyNone>>), PyTuple(<<PyNone>>), PyDict(<< <<"a">> >>, <<PyNone>>),
     PyList(<<PyInt(1), PyList(<<PyNone>>)>>)}

DeclaredNames == {<<"x">>, <<"a", " ", "b">>, <<"_", "1">>}

InitDeclare ==
    /\ arg \in [name : DeclaredNames,
                value : ScalarValues \cup {PyNone} \cup NoneContainers,
                declare_type : BOOLEAN]
    /\ res = NoResult
    /\ LifecycleIdle

\* caller: DMScriptWrapper.getDMCodeForVariable(name, value, declare_type)
DeclareScalar ==
    /\ res = NoResult
    /\ res' = getDMCodeForVariable(arg.name, arg.value, arg.declare_type)
    /\ UNCHANGED <<arg, lifeVars>>

SpecDeclare == InitDeclare /\ [][DeclareScalar]_vars

\* the one statement that assigns literal to the escaped name, declared with
\* keyword or not
Assignment(keyword, name, literal, declare_type) ==
    << (IF declare_type THEN <<keyword, " ">> ELSE <<>>)
       \o [i \in 1..Len(name) |-> IF name[i] \in AsciiWordChars THEN name[i] ELSE "_"]
       \o <<" = ">> \o literal \o <<";">> >>

\* the literal of a scalar: text quoted and escaped, numbers as they are,
\* booleans as 0 or 1
ScalarLiteral(value) ==
    CASE value.k = "str" -> <<"\"">> \o escape_dm_string(value.s) \o <<"\"">>
      [] value.k = "int" -> <<ToString(value.i)>>
      [] value.k = "float" -> <<ToString(value.f), ".", "0">>
      [] OTHER -> <<IF value.b THEN "1" ELSE "0">>

ScalarIsAssigned ==
    res = [ok |-> TRUE,
           v |-> Assignment(IF arg.value.k = "str" THEN "string" ELSE "number",
                            arg.name, ScalarLiteral(arg.value), arg.declare_type)]

\* C21: for a scalar getDMCodeForVariable returns one statement that assigns
\* a literal to the escaped name: text quoted and escaped, integers and reals
\* as numeric literals, booleans as 0 or 1, with the declaration keyword in
\* front exactly when declare_type is true
C21_ScalarIsOneAssignment ==
    (res # NoResult /\ arg.value \in ScalarValues) => ScalarIsAssigned

\* the same for the scalars that are no bool
C21_HoldsForNonBool ==
    (res # NoResult /\ arg.value \in ScalarValues /\ arg.value.k # "bool") =>
        ScalarIsAssigned

\* a bool is written as Python prints it
C21_BoolIsPrinted ==
    (res # NoResult /\ arg.value = PyBool(TRUE) /\ arg.name = VarX /\ arg.declare_type) =>
        res = [ok |-> TRUE, v |-> << <<"number", " ", "x", " = ", "True", ";">> >>]

\* the None leaves of value
RECURSIVE NoneLeaves(_)
NoneLeaves(value) ==
    CASE value.k = "dict" -> SumSeq([i \in 1..Len(value.vals) |-> NoneLeaves(value.vals[i])])
      [] value.k \in {"list", "tuple"} ->
           SumSeq([i \in 1..Len(value.items) |-> NoneLeaves(value.items[i])])
      [] value.k = "none" -> 1
      [] OTHER -> 0

\* line stores the number 0 in a tag
StoresNumberZero(line) ==
    /\ Len(line) >= 3
    /\ SubSeq(line, Len(line) - 2, Len(line)) = <<"0", ")", ";">>
    /\ \/ HoldsTokens(line, <<".TagGroupInsertTagAs", "Number", "(">>)
       \/ HoldsTokens(line, <<".TagGroupSetIndexedTagAs", "Number", "(">>)

NoneIsDeclared ==
    /\ arg.value = PyNone =>
           res = [ok |-> TRUE,
                  v |-> Assignment("number", arg.name, <<"0">>, arg.declare_type)]
    /\ arg.value \in NoneContainers =>
           (IF res.ok
            THEN Cardinality({i \in 1..Len(res.v) : StoresNumberZero(res.v[i])})
                     = NoneLeaves(arg.value)
            ELSE FALSE)

\* C22: for None getDMCodeForVariable returns the declaration of the variable
\* as a number with the value 0 and does not raise, for a None given as the
\* value and for the None leaves of lists and dicts
C22_NoneIsDeclaredAsZero ==
    res # NoResult => NoneIsDeclared

\* the same for the None leaves of containers alone
C22_HoldsForNoneLeaves ==
    (res # NoResult /\ arg.value # PyNone) => NoneIsDeclared

\* None as the value raises LookupError
C22_NoneRaises ==
    (res # NoResult /\ arg.value = PyNone) => res = [ok |-> FALSE, err |-> "LookupError"]

(***************************************************************************)
(* SpecTag: get_persistent_tag(path) against persistent tags of the user,  *)
(* at a time no other session is created.  The user's tags are a TagGroup  *)
(* of the host; store holds the namespaces of the sessions.                *)
(***************************************************************************)
\* the dmscript of get_persistent_tag as exec_dmscript normalizes it
GetPersistentTagScript ==
    [kind |-> "script",
     script |->
     <<<<"number exists = GetPersistentTagGroup().TagGroupDoesTagExist(path);">>,
       <<"TagGroup value_taggroup = NewTagGroup();">>,
       <<>>,
       <<"if(exists){">>,
       <<"TagGroup source;">>,
       <<"string source_label;">>,
       <<"number source_index = GetPersistentTagGroup().TagGroupParseTagPath(path, source, source_label);">>,
       <<>>,
       <<"number target_index = value_taggroup.TagGroupCreateNewLabeledTag(value_tagname);">>,
       <<"value_taggroup.TagGroupCopyTagToIndex(target_index, source, source_index);">>,
       <<"}">>>>]

\* the labels of a path of the host, ":" being the separator
TagPath(path) == SplitAt(path, {i \in 1..Len(path) : path[i] = ":"})

\* TagGroupDoesTagExist and TagGroupParseTagPath: the tag at the labels, or
\* none
RECURSIVE TagAt(_, _)
TagAt(group, labels) ==
    LET at == {x \in 1..Len(group.tags) : group.tags[x].label = Head(labels)}
        tag == group.tags[CHOOSE x \in at : TRUE]
    IN  IF group.isList \/ at = {} THEN [found |-> FALSE, tag |-> Tag(<<>>, 0, PyNone)]
        ELSE IF Len(labels) = 1 THEN [found |-> TRUE, tag |-> tag]
        ELSE IF tag.type = 0 THEN TagAt(tag.val, Tail(labels))
        ELSE [found |-> FALSE, tag |-> Tag(<<>>, 0, PyNone)]

\* what the variables value_taggroup, exists, path and value_tagname hold
\* when the script of get_persistent_tag has run
TagScriptValues(hit, path, value_tagname) ==
    <<TG(FALSE, IF hit.found THEN <<Tag(value_tagname, hit.tag.type, hit.tag.val)>>
                ELSE <<>>),
      PyBool(hit.found), PyStr(path), PyStr(value_tagname)>>

\* bool(value) for what is read back
Truthy(value) ==
    CASE value.k = "bool" -> value.b
      [] value.k = "int" -> value.i # 0
      [] value.k = "none" -> FALSE
      [] OTHER -> TRUE

\* the block of the with statement, followed by __exit__, when __enter__
\* returned; the exception of __enter__ otherwise
TagFromSession(r, value_tagname) ==
    LET exists == getSyncedVar(r.self, <<"e", "x", "i", "s", "t", "s">>).v
        group == getSyncedVar(r.self, <<"v", "a", "l", "u", "e", "_", "t", "a", "g", "g", "r", "o", "u", "p">>).v
        left == freeAllSyncedVars(r.self, r.store)
    IN  IF r.returned # "True"
        THEN [ok |-> FALSE, err |-> r.error.type, store |-> r.store]
        ELSE IF ~Truthy(exists)
        THEN [ok |-> FALSE, err |-> "KeyError", store |-> left]
        ELSE IF group.k = "none"
        THEN [ok |-> FALSE, err |-> "TypeError", store |-> left]
        ELSE IF group.k = "dict" /\ HasKey(group, value_tagname)
        THEN [ok |-> TRUE, v |-> ValueAt(group, value_tagname), store |-> left]
        ELSE [ok |-> FALSE, err |-> "KeyError", store |-> left]

\* the with statement of get_persistent_tag on the session script
WithSession(script, code, hit, path, value_tagname, tags) ==
    TagFromSession(__call__(script, code, tags, [t \in Targets |-> NoFile], FALSE,
                            [k |-> "ok",
                             var_values |-> TagScriptValues(hit, path, value_tagname)]),
                   value_tagname)

SessionOfTag(script, persistent, path, value_tagname, tags) ==
    [script |-> script,
     r |-> WithSession(script, getExecDMScriptCode(script, ScriptFiles),
                       TagAt(persistent, TagPath(path)), path, value_tagname, tags)]

\* get_persistent_tag(path) for a str path at the time now, persistent being
\* the user's tags and tags the namespaces of the sessions: [script, r] with
\* the session it created and r the value returned or the error raised,
\* together with the namespaces it leaves
get_persistent_tag(path, persistent, tags, now) ==
    SessionOfTag(
        __init__(<<GetPersistentTagScript>>,
                 PyDict(<<<<"v", "a", "l", "u", "e", "_", "t", "a", "g", "g", "r", "o", "u", "p">>, <<"e", "x", "i", "s", "t", "s">>>>, <<PyType("dict"), PyType("bool")>>),
                 PyDict(<<<<"p", "a", "t", "h">>, <<"v", "a", "l", "u", "e", "_", "t", "a", "g", "n", "a", "m", "e">>>>,
                        <<PyStr(path), PyStr(<<"v", "a", "l", "u", "e", "_", "t", "a", "g", "_">> \o Digits(now \div 2))>>),
                 PyNone, FALSE, PyNone, now),
        persistent, path, <<"v", "a", "l", "u", "e", "_", "t", "a", "g", "_">> \o Digits(now \div 2), tags)

\* the values of the user's tags: a long, a string, a short, an empty group,
\* a group and a list
UserTagValues ==
    {[type |-> 3, val |-> PyInt(5)], [type |-> 20, val |-> PyStr(<<"s">>)],
     [type |-> 2, val |-> PyInt(1)], [type |-> 0, val |-> TG(FALSE, <<>>)],
     [type |-> 0, val |-> TG(FALSE, <<Tag(<<"k">>, 3, PyInt(1))>>)],
     [type |-> 0, val |-> TG(TRUE, <<Tag(<<>>, 3, PyInt(1))>>)]}

\* the user's tags: a tag a or none, a tag g or none
UserTags ==
    {TG(FALSE, a \o g) :
        a \in {<<>>} \cup {<<Tag(<<"a">>, v.type, v.val)>> : v \in UserTagValues},
        g \in {<<>>} \cup {<<Tag(<<"g">>, v.type, v.val)>> : v \in UserTagValues}}

UserPaths == {<<"a">>, <<"g">>, <<"g", ":", "k">>, <<"z">>}

InitTag ==
    /\ arg \in [persistent : UserTags, path : UserPaths]
    /\ res = NoResult
    /\ LifecycleIdle

\* caller: get_persistent_tag(path)
GetPersistentTag ==
    /\ res = NoResult
    /\ res' = get_persistent_tag(arg.path, arg.persistent, EmptyGroup, 0)
    /\ UNCHANGED <<arg, lifeVars>>

SpecTag == InitTag /\ [][GetPersistentTag]_vars

\* the Python value of a tag of the host: a TagGroup as a dict, a TagList as
\* a list
RECURSIVE Converted(_)
Converted(val) ==
    IF val.k # "tg" THEN val
    ELSE IF val.isList
    THEN PyList([i \in 1..Len(val.tags) |-> Converted(val.tags[i].val)])
    ELSE PyDict([i \in 1..Len(val.tags) |-> val.tags[i].label],
                [i \in 1..Len(val.tags) |-> Converted(val.tags[i].val)])

ReturnsTagAndReleases ==
    /\ PersistentTagToken(res.script) \notin DOMAIN res.r.store
    /\ IF TagAt(arg.persistent, TagPath(arg.path)).found
       THEN (IF res.r.ok
             THEN PyEq(res.r.v, Converted(TagAt(arg.persistent, TagPath(arg.path)).tag.val))
             ELSE FALSE)
       ELSE (IF res.r.ok THEN FALSE ELSE res.r.err = "KeyError")

\* C23: get_persistent_tag returns the converted value at a path that exists
\* and raises KeyError for a path that does not exist, and in both cases the
\* namespace of the session it created is gone when it ends
C23_TagReturnedAndSessionReleased ==
    res # NoResult => ReturnsTagAndReleases

\* the same where the tag at the path is a long, a string or a group that
\* is not empty, or does not exist
C23_HoldsForPlainTags ==
    (res # NoResult
       /\ (TagAt(arg.persistent, TagPath(arg.path)).found =>
              /\ TagAt(arg.persistent, TagPath(arg.path)).tag.type # 2
              /\ TagAt(arg.persistent, TagPath(arg.path)).tag.val
                     \notin {TG(FALSE, <<>>), TG(TRUE, <<>>)})) =>
        ReturnsTagAndReleases

\* a short at the path: LookupError, and the namespace stays
C23_ShortRaisesAndStays ==
    (res # NoResult /\ arg.path = <<"a">>
       /\ arg.persistent = TG(FALSE, <<Tag(<<"a">>, 2, PyInt(1))>>)) =>
        /\ ~res.r.ok /\ res.r.err = "LookupError"
        /\ PersistentTagToken(res.script) \in DOMAIN res.r.store

(***************************************************************************)
(* None leaves in convert_to_taggroup (SpecTG)                             *)
(***************************************************************************)
\* the tag of group that holds the i-th element of value
TagOfItem(value, group, i) ==
    IF value.k = "dict"
    THEN group.tags[CHOOSE x \in 1..Len(group.tags) : group.tags[x].label = value.keys[i]]
    ELSE group.tags[i]

\* every None leaf of value is the short 0 in group, at every depth
RECURSIVE NoneIsShortZero(_, _)
NoneIsShortZero(value, group) ==
    LET items == IF value.k = "dict" THEN value.vals ELSE value.items
    IN  /\ Len(group.tags) = Len(items)
        /\ \A i \in 1..Len(items) :
               CASE items[i].k = "none" ->
                      /\ TagOfItem(value, group, i).type = 2
                      /\ TagOfItem(value, group, i).val = PyInt(0)
                 [] items[i].k \in {"dict", "list", "tuple"} ->
                      /\ TagOfItem(value, group, i).type = 0
                      /\ NoneIsShortZero(items[i], TagOfItem(value, group, i).val)
                 [] OTHER -> TRUE

\* C24: convert_to_taggroup stores every None leaf, in a list or a dict at
\* any depth, as the short 0 and does not raise
C24_NoneLeafIsShortZero ==
    (res # NoResult /\ ~HasInvalidKey(arg.tags) /\ HasNoneLeaf(arg.tags)) =>
        (IF res.ok THEN NoneIsShortZero(arg.tags, res.v) ELSE FALSE)

\* every value with a None leaf and without an invalid key raises TypeError
C24_NoneLeafRaisesTypeError ==
    (res # NoResult /\ ~HasInvalidKey(arg.tags) /\ HasNoneLeaf(arg.tags)) =>
        res = [ok |-> FALSE, err |-> "TypeError"]

(***************************************************************************)
(* SpecRepl: the script-side __exec_dmscript_replace(subject, "/", "//"),  *)
(* as the linearizer applies it to the label of every tag of a TagGroup.   *)
(***************************************************************************)
MaxLabel == 4

LabelChars == {"a", "b", "/"}

LabelsOf(n) == UNION {[1..m -> LabelChars] : m \in 0..n}

InitRepl == arg \in LabelsOf(MaxLabel) /\ res = NoResult /\ LifecycleIdle

\* script: label = tg.TagGroupGetTagLabel(i).__exec_dmscript_replace("/", "//")
ReplaceSlashes ==
    /\ res = NoResult
    /\ res' = [label |-> __exec_dmscript_replace(arg, "/", <<"/", "/">>)]
    /\ UNCHANGED <<arg, lifeVars>>

SpecRepl == InitRepl /\ [][ReplaceSlashes]_vars

\* C26: the label made from a key is the key with every "/" doubled and
\* every other character kept: __exec_dmscript_replace(subject, "/", "//")
\* gives what a replacement of all "/" gives, also for a subject with text
\* after its last "/"
C26_SlashesDoubled ==
    res # NoResult =>
        res.label = Flatten([i \in 1..Len(arg) |->
                                IF arg[i] = "/" THEN <<"/", "/">> ELSE <<arg[i]>>])

\* the same for the subjects without text after the last "/"
C26_HoldsWithoutTail ==
    (res # NoResult /\ (Contains(arg, "/") => arg[Len(arg)] = "/")) =>
        res.label = Flatten([i \in 1..Len(arg) |->
                                IF arg[i] = "/" THEN <<"/", "/">> ELSE <<arg[i]>>])

\* "a/b" gives "a//"
C26_TailIsDropped ==
    (res # NoResult /\ arg = <<"a", "/", "b">>) => res.label = <<"a", "/", "/">>

(***************************************************************************)
(* The labels convert_to_taggroup stores (SpecTG)                          *)
(***************************************************************************)
\* a label with ":", "[" or "]" in group, at any depth
RECURSIVE HasInvalidLabel(_)
HasInvalidLabel(group) ==
    \E x \in 1..Len(group.tags) :
        \/ HasInvalidChar(group.tags[x].label)
        \/ (IF group.tags[x].type = 0 THEN HasInvalidLabel(group.tags[x].val) ELSE FALSE)

C30_HoldsForCleanPolicies ==
    (IF res # NoResult
     THEN res.ok /\ arg.replace_invalid_chars
                        \notin {PyStr(<<"[">>), [k |-> "callable", name |-> "keep"]}
     ELSE FALSE) => ~HasInvalidLabel(res.v)

\* {"b:": 1} with the replacement "[" is stored under "b["
C30_BracketIsStored ==
    (res # NoResult /\ arg.tags = PyDict(<< <<"b", ":">> >>, <<PyInt(1)>>)
         /\ arg.replace_invalid_chars = PyStr(<<"[">>)) =>
        res = [ok |-> TRUE, v |-> TG(FALSE, <<Tag(<<"b", "[">>, 3, PyInt(1))>>)]

====
